---------------------------- MODULE Spec2Model ----------------------------
(***************************************************************************)
(* Visitor management system: the appointment scheduler and the           *)
(* visit/queue state machine, modelled from the HTTP handlers.  The store  *)
(* is a set of tables; every handler is one action (requests run one at a  *)
(* time); `last` holds the request being answered and its HTTP status     *)
(* until the response is returned.                                         *)
(***************************************************************************)
EXTENDS Integers, Sequences, FiniteSets, TLC

\* ------------------------------------------------------------ bounds
MaxAppointments == 2   \* appointment rows ever created
MaxVisits == 2         \* visit rows ever created
MaxNow == 1            \* last value of the wall clock

\* ------------------------------------------------------------ values
MinutesPerDay == 1440
NoId == 0              \* a null / absent reference to an appointment or a visit
NoTime == -1           \* a null timestamp
NULL == "null"         \* a null string field
ABSENT == "absent"     \* a field the request does not carry (undefined)
SatAbsent == -1        \* satisfaction not carried by the request
SatNull == 0           \* satisfaction null

\* Rows of the User and Visitor tables (the seed creates them; no handler
\* modelled here deletes one), and an id that resolves to no row.
UserIds == {"u1", "u2"}
VisitorIds == {"v1", "v2"}
MissingId == "missing"

AppointmentStatus == {"PENDING", "CONFIRMED", "COMPLETED", "CANCELLED", "NO_SHOW"}
VisitStatus == {"IN_PROGRESS", "COMPLETED", "CANCELLED", "NO_SHOW"}

VARIABLES
  visitors,            \* Visitor table: id -> [visitCount, lastVisit]
  appointments,        \* Appointment table: id -> row
  visits,              \* Visit table: id -> row
  nextAppointmentId,   \* ids are never reused
  nextVisitId,
  now,                 \* the wall clock read by new Date()
  last,                \* the request being answered and its HTTP status
  issues,              \* Issue table: id -> row
  resumes,             \* Resume table: id -> row
  calls                \* handlers suspended at an await: caller -> position and locals

vars == <<visitors, appointments, visits, nextAppointmentId, nextVisitId, now, last,
          issues, resumes, calls>>

\* ------------------------------------------------------------ helpers
\* new Date(`${scheduledDate}T${startTime}`): minutes since the epoch day 0.
DateTime(scheduledDate, startTime) == scheduledDate * MinutesPerDay + startTime

\* The OR clause of the conflict query, with closed comparisons on both ends
\* of every branch.
TimeOverlapClosed(a, startTime, endTime) ==
  \/ (a.startTime <= startTime /\ a.endTime >= startTime)
  \/ (a.startTime <= endTime /\ a.endTime >= endTime)
  \/ (a.startTime >= startTime /\ a.endTime <= endTime)

\* The OR clause of the conflict query (the same text in create and update).
TimeOverlap(a, startTime, endTime) ==
  \/ (a.startTime <= startTime /\ a.endTime > startTime)
  \/ (a.startTime < endTime /\ a.endTime >= endTime)
  \/ (a.startTime >= startTime /\ a.endTime <= endTime)

\* status: { notIn: [CANCELLED, NO_SHOW] }
ActiveAppointment(a) == a.status \notin {"CANCELLED", "NO_SHOW"}

\* db.appointment.findMany of createAppointment.
CreateConflicts(userId, scheduledDate, startTime, endTime) ==
  {id \in DOMAIN appointments :
     /\ appointments[id].userId = userId
     /\ appointments[id].scheduledDate = scheduledDate
     /\ TimeOverlap(appointments[id], startTime, endTime)
     /\ ActiveAppointment(appointments[id])}

\* The update query without its  id: { not: id }  clause.
UpdateConflictsWithSelf(id, userId, scheduledDate, startTime, endTime) ==
  {i \in DOMAIN appointments :
     /\ appointments[i].userId = userId
     /\ appointments[i].scheduledDate = scheduledDate
     /\ TimeOverlap(appointments[i], startTime, endTime)
     /\ ActiveAppointment(appointments[i])}

\* db.appointment.findMany of updateAppointment.
UpdateConflicts(id, userId, scheduledDate, startTime, endTime) ==
  {i \in DOMAIN appointments :
     /\ appointments[i].userId = userId
     /\ appointments[i].scheduledDate = scheduledDate
     /\ i # id
     /\ TimeOverlap(appointments[i], startTime, endTime)
     /\ ActiveAppointment(appointments[i])}

\* f with key k removed.
Remove(f, k) == [x \in DOMAIN f \ {k} |-> f[x]]

\* f with key k bound to v.
Insert(f, k, v) == [x \in DOMAIN f \cup {k} |-> IF x = k THEN v ELSE f[x]]

\* No request is being answered.
Idle == [op |-> "none", code |-> 0]

\* ------------------------------------------------------------ initial state
Init ==
  /\ visitors = [v \in VisitorIds |-> [visitCount |-> 0, lastVisit |-> NoTime]]
  /\ appointments = <<>>
  /\ visits = <<>>
  /\ nextAppointmentId = 1
  /\ nextVisitId = 1
  /\ now = 0
  /\ last = Idle
  /\ issues = <<>>
  /\ resumes = <<>>
  /\ calls = <<>>

\* return NextResponse.json(...): the response leaves, the next request may run.
Return ==
  /\ last # Idle
  /\ last' = Idle
  /\ UNCHANGED <<visitors, appointments, visits, nextAppointmentId, nextVisitId, now>>
  /\ UNCHANGED <<issues, resumes, calls>>

\* ------------------------------------------------------------ appointments
\* POST /api/appointments
CreateAppointment(visitorId, userId, scheduledDate, startTime, duration, priority) ==
  LET scheduledDateTime == DateTime(scheduledDate, startTime)
      endTime == scheduledDateTime + duration
      conflicts == CreateConflicts(userId, scheduledDate, scheduledDateTime, endTime)
      code == IF conflicts # {} THEN 409
              ELSE IF visitorId \notin DOMAIN visitors THEN 404
              ELSE IF userId \notin UserIds THEN 404
              ELSE 200
  IN /\ code = 200 => nextAppointmentId <= MaxAppointments
     /\ last' = [op |-> "createAppointment", code |-> code,
                 visitorId |-> visitorId, userId |-> userId,
                 scheduledDate |-> scheduledDate, startTime |-> startTime,
                 duration |-> duration]
     /\ IF code = 200
        THEN /\ appointments' = Insert(appointments, nextAppointmentId,
                  [visitorId |-> visitorId, userId |-> userId,
                   scheduledDate |-> scheduledDate,
                   startTime |-> scheduledDateTime, endTime |-> endTime,
                   duration |-> duration, status |-> "PENDING",
                   priority |-> priority])
             /\ nextAppointmentId' = nextAppointmentId + 1
        ELSE UNCHANGED <<appointments, nextAppointmentId>>
     /\ UNCHANGED <<visitors, visits, nextVisitId, now>>
     /\ UNCHANGED <<issues, resumes, calls>>


\* A patch of PUT /api/appointments/[id]: the optional fields of
\* updateAppointmentSchema that touch scheduling (ABSENT / AbsentInt: not sent).
AbsentInt == -1
NoPatch ==
  [userId |-> ABSENT, scheduledDate |-> AbsentInt, startTime |-> AbsentInt,
   duration |-> AbsentInt, status |-> ABSENT]

\* PUT /api/appointments/[id]
UpdateAppointment(id, p) ==
  LET found == id \in DOMAIN appointments
      existingAppointment == appointments[id]
      timed == p.scheduledDate # AbsentInt \/ p.startTime # AbsentInt
                 \/ p.duration # AbsentInt
      scheduledDate == IF p.scheduledDate # AbsentInt THEN p.scheduledDate
                       ELSE existingAppointment.scheduledDate
      startTime == IF p.startTime # AbsentInt
                   THEN DateTime(scheduledDate, p.startTime)
                   ELSE existingAppointment.startTime
      duration == IF p.duration # AbsentInt THEN p.duration
                  ELSE existingAppointment.duration
      endTime == startTime + duration
      userId == IF p.userId # ABSENT THEN p.userId ELSE existingAppointment.userId
      conflicts == UpdateConflicts(id, userId, scheduledDate, startTime, endTime)
      \* data: validatedData -- only the fields present are written
      updated ==
        [existingAppointment EXCEPT
           !.userId = IF p.userId # ABSENT THEN p.userId ELSE @,
           !.duration = IF p.duration # AbsentInt THEN p.duration ELSE @,
           !.status = IF p.status # ABSENT THEN p.status ELSE @,
           !.scheduledDate = IF timed THEN scheduledDate ELSE @,
           !.startTime = IF timed THEN startTime ELSE @,
           !.endTime = IF timed THEN endTime ELSE @]
      code == IF ~found THEN 404
              ELSE IF timed /\ conflicts # {} THEN 409
              ELSE IF p.userId # ABSENT /\ p.userId \notin UserIds THEN 500
              ELSE 200
  IN /\ last' = [op |-> "updateAppointment", code |-> code, id |-> id, patch |-> p]
     /\ appointments' = IF code = 200 THEN [appointments EXCEPT ![id] = updated]
                        ELSE appointments
     /\ UNCHANGED <<visitors, visits, nextAppointmentId, nextVisitId, now>>
     /\ UNCHANGED <<issues, resumes, calls>>

\* DELETE /api/appointments/[id]; a visit that referenced the row keeps no
\* reference to it (the optional relation is set to null by the store).
DeleteAppointment(id) ==
  LET found == id \in DOMAIN appointments
  IN /\ last' = [op |-> "deleteAppointment", code |-> IF found THEN 200 ELSE 404,
                 id |-> id]
     /\ appointments' = IF found THEN Remove(appointments, id) ELSE appointments
     /\ visits' = IF found
                  THEN [v \in DOMAIN visits |->
                          IF visits[v].appointmentId = id
                          THEN [visits[v] EXCEPT !.appointmentId = NoId]
                          ELSE visits[v]]
                  ELSE visits
     /\ UNCHANGED <<visitors, nextAppointmentId, nextVisitId, now>>
     /\ UNCHANGED <<issues, resumes, calls>>

\* ------------------------------------------------------------ visits
\* db.visit.findFirst({ where: { visitorId, status: IN_PROGRESS } })
ActiveVisit(visitorId) ==
  {id \in DOMAIN visits :
     /\ visits[id].visitorId = visitorId
     /\ visits[id].status = "IN_PROGRESS"}

\* The checks of checkInVisitor with the active-visit lookup narrowed to the
\* staff member named in the request.
CheckInCodePerStaff(visitorId, userId, appointmentId) ==
  IF visitorId \notin DOMAIN visitors THEN 404
  ELSE IF userId \notin UserIds THEN 404
  ELSE IF {id \in ActiveVisit(visitorId) : visits[id].userId = userId} # {} THEN 409
  ELSE IF appointmentId # NoId /\ appointmentId \notin DOMAIN appointments THEN 404
  ELSE 200

\* The checks of checkInVisitor, in the order the handler makes them.
CheckInCode(visitorId, userId, appointmentId) ==
  IF visitorId \notin DOMAIN visitors THEN 404
  ELSE IF userId \notin UserIds THEN 404
  ELSE IF ActiveVisit(visitorId) # {} THEN 409
  ELSE IF appointmentId # NoId /\ appointmentId \notin DOMAIN appointments THEN 404
  ELSE 200

\* The checks of createVisit, in the order the handler makes them.
CreateVisitCode(visitorId, userId, appointmentId) ==
  IF visitorId \notin DOMAIN visitors THEN 404
  ELSE IF userId \notin UserIds THEN 404
  ELSE IF appointmentId # NoId /\ appointmentId \notin DOMAIN appointments THEN 404
  ELSE IF ActiveVisit(visitorId) # {} THEN 409
  ELSE 200

\* db.visit.create of both check-in handlers.
NewVisit(visitorId, userId, appointmentId, notes) ==
  [visitorId |-> visitorId, userId |-> userId, appointmentId |-> appointmentId,
   checkInTime |-> now, checkOutTime |-> NoTime, status |-> "IN_PROGRESS",
   notes |-> notes, satisfaction |-> SatNull]

\* db.visitor.update: visitCount incremented, lastVisit stamped.
CountVisit(visitorId) ==
  [visitors EXCEPT ![visitorId] =
     [@ EXCEPT !.visitCount = @ + 1, !.lastVisit = now]]

\* db.appointment.update({ where: { id }, data: { status } })
SetAppointmentStatus(id, status) ==
  [appointments EXCEPT ![id] = [@ EXCEPT !.status = status]]

\* POST /api/queue/actions?action=checkin
CheckInVisitor(visitorId, userId, appointmentId, notes) ==
  LET code == CheckInCode(visitorId, userId, appointmentId)
  IN /\ code = 200 => nextVisitId <= MaxVisits
     /\ last' = [op |-> "checkInVisitor", code |-> code, visitorId |-> visitorId,
                 userId |-> userId, appointmentId |-> appointmentId]
     /\ IF code = 200
        THEN /\ appointments' = IF appointmentId # NoId
                                THEN SetAppointmentStatus(appointmentId, "CONFIRMED")
                                ELSE appointments
             /\ visits' = Insert(visits, nextVisitId,
                                 NewVisit(visitorId, userId, appointmentId, notes))
             /\ nextVisitId' = nextVisitId + 1
             /\ visitors' = CountVisit(visitorId)
        ELSE UNCHANGED <<appointments, visits, nextVisitId, visitors>>
     /\ UNCHANGED <<nextAppointmentId, now>>
     /\ UNCHANGED <<issues, resumes, calls>>

\* POST /api/visits: the appointment is written before the active-visit lookup.
CreateVisit(visitorId, userId, appointmentId, notes) ==
  LET linked == appointmentId # NoId
      code == CreateVisitCode(visitorId, userId, appointmentId)
  IN /\ code = 200 => nextVisitId <= MaxVisits
     /\ last' = [op |-> "createVisit", code |-> code, visitorId |-> visitorId,
                 userId |-> userId, appointmentId |-> appointmentId]
     /\ appointments' = IF linked /\ code \in {200, 409}
                        THEN SetAppointmentStatus(appointmentId, "COMPLETED")
                        ELSE appointments
     /\ IF code = 200
        THEN /\ visits' = Insert(visits, nextVisitId,
                                 NewVisit(visitorId, userId, appointmentId, notes))
             /\ nextVisitId' = nextVisitId + 1
             /\ visitors' = CountVisit(visitorId)
        ELSE UNCHANGED <<visits, nextVisitId, visitors>>
     /\ UNCHANGED <<nextAppointmentId, now>>
     /\ UNCHANGED <<issues, resumes, calls>>

\* The guard of checkout and cancel without its status test.
CloseCodeNoStatus(visitId) ==
  IF visitId \notin DOMAIN visits THEN 404 ELSE 200

\* The guard shared by checkout and cancel: the visit exists and is in progress.
CloseCode(visitId) ==
  IF visitId \notin DOMAIN visits THEN 404
  ELSE IF visits[visitId].status # "IN_PROGRESS" THEN 400
  ELSE 200

\* notes: notes || visit.notes, with the new notes always taken.
MergeNotesAlways(notes, stored) == notes

\* notes: notes || visit.notes  (null, undefined and "" keep the stored notes)
MergeNotes(notes, stored) == IF notes \in {NULL, ABSENT, ""} THEN stored ELSE notes

\* The appointment write of checkout and cancel:  if (visit.appointmentId) ...
CloseAppointment(visitId, status) ==
  IF visits[visitId].appointmentId # NoId
  THEN SetAppointmentStatus(visits[visitId].appointmentId, status)
  ELSE appointments

\* POST /api/queue/actions?action=checkout
CheckOutVisitor(visitId, notes, satisfaction) ==
  LET code == CloseCode(visitId)
  IN /\ last' = [op |-> "checkOutVisitor", code |-> code, visitId |-> visitId,
                 notes |-> notes, satisfaction |-> satisfaction]
     /\ IF code = 200
        THEN /\ visits' = [visits EXCEPT ![visitId] =
                  [@ EXCEPT !.status = "COMPLETED",
                            !.checkOutTime = now,
                            !.notes = MergeNotes(notes, @),
                            !.satisfaction = IF satisfaction = SatAbsent THEN @
                                             ELSE satisfaction]]
             /\ appointments' = CloseAppointment(visitId, "COMPLETED")
        ELSE UNCHANGED <<visits, appointments>>
     /\ UNCHANGED <<visitors, nextAppointmentId, nextVisitId, now>>
     /\ UNCHANGED <<issues, resumes, calls>>

\* POST /api/queue/actions?action=cancel
CancelVisit(visitId, notes) ==
  LET code == CloseCode(visitId)
  IN /\ last' = [op |-> "cancelVisit", code |-> code, visitId |-> visitId,
                 notes |-> notes]
     /\ IF code = 200
        THEN /\ visits' = [visits EXCEPT ![visitId] =
                  [@ EXCEPT !.status = "CANCELLED",
                            !.checkOutTime = now,
                            !.notes = MergeNotes(notes, @)]]
             /\ appointments' = CloseAppointment(visitId, "CANCELLED")
        ELSE UNCHANGED <<visits, appointments>>
     /\ UNCHANGED <<visitors, nextAppointmentId, nextVisitId, now>>
     /\ UNCHANGED <<issues, resumes, calls>>

\* PUT /api/visits/[id]: status, notes and satisfaction are written as sent;
\* checkOutTime is stamped when the status becomes COMPLETED.
UpdateVisit(id, status, notes, satisfaction) ==
  LET found == id \in DOMAIN visits
      existingVisit == visits[id]
      stamp == status = "COMPLETED" /\ existingVisit.status # "COMPLETED"
  IN /\ last' = [op |-> "updateVisit", code |-> IF found THEN 200 ELSE 404,
                 id |-> id, status |-> status]
     /\ visits' = IF found
                  THEN [visits EXCEPT ![id] =
                          [@ EXCEPT !.status = IF status = ABSENT THEN @ ELSE status,
                                    !.notes = IF notes = ABSENT THEN @ ELSE notes,
                                    !.satisfaction = IF satisfaction = SatAbsent
                                                     THEN @ ELSE satisfaction,
                                    !.checkOutTime = IF stamp THEN now ELSE @]]
                  ELSE visits
     /\ UNCHANGED <<visitors, appointments, nextAppointmentId, nextVisitId, now>>
     /\ UNCHANGED <<issues, resumes, calls>>

\* DELETE /api/visits/[id]
DeleteVisit(id) ==
  LET found == id \in DOMAIN visits
  IN /\ last' = [op |-> "deleteVisit", code |-> IF found THEN 200 ELSE 404, id |-> id]
     /\ visits' = IF found THEN Remove(visits, id) ELSE visits
     /\ UNCHANGED <<visitors, appointments, nextAppointmentId, nextVisitId, now>>
     /\ UNCHANGED <<issues, resumes, calls>>

\* A timestamp of the store equal to the current clock value.
Stamped ==
  \/ \E v \in DOMAIN visitors : visitors[v].lastVisit = now
  \/ \E i \in DOMAIN visits : now \in {visits[i].checkInTime, visits[i].checkOutTime}
  \/ \E i \in DOMAIN issues : issues[i].resolvedDate = now

\* Time passes between two requests.  Only the order of the timestamps
\* matters to the handlers, so the clock moves on once its value is in use.
Tick ==
  /\ last = Idle
  /\ now < MaxNow
  /\ Stamped
  /\ now' = now + 1
  /\ UNCHANGED <<visitors, appointments, visits, nextAppointmentId, nextVisitId, last>>
  /\ UNCHANGED <<issues, resumes, calls>>

\* ------------------------------------------------------------ scheduler runs
Dates == {0, 1}
StartTimes == {600, 615}
MinDuration == 15
Durations == {MinDuration, 2 * MinDuration}
AppointmentIds == 1 .. MaxAppointments
StatusInputs == {"CONFIRMED", "CANCELLED", "NO_SHOW"}

\* Patches of one field, and of a start time with a staff member or a date.
SchedPatches ==
  {[NoPatch EXCEPT !.status = s] : s \in StatusInputs}
    \cup {[NoPatch EXCEPT !.userId = u] : u \in UserIds \cup {MissingId}}
    \cup {[NoPatch EXCEPT !.scheduledDate = d] : d \in Dates}
    \cup {[NoPatch EXCEPT !.startTime = t] : t \in StartTimes}
    \cup {[NoPatch EXCEPT !.duration = n] : n \in Durations}
    \cup {[NoPatch EXCEPT !.userId = u, !.startTime = t] :
            u \in UserIds, t \in StartTimes}
    \cup {[NoPatch EXCEPT !.scheduledDate = d, !.startTime = t] :
            d \in Dates, t \in StartTimes}

NextSched ==
  \/ Return
  \/ /\ last = Idle
     /\ \E v \in {"v1", MissingId}, u \in UserIds \cup {MissingId}, d \in Dates,
        t \in StartTimes, n \in Durations :
          CreateAppointment(v, u, d, t, n, "NORMAL")
  \/ /\ last = Idle
     /\ \E id \in AppointmentIds \cup {MaxAppointments + 1}, p \in SchedPatches :
          UpdateAppointment(id, p)
  \/ /\ last = Idle
     /\ \E id \in AppointmentIds \cup {MaxAppointments + 1} : DeleteAppointment(id)

SpecSched == Init /\ [][NextSched]_vars

\* Creation against a table whose rows are cancelled, marked no-show, put back
\* to pending, or deleted.
CreatePatches == {[NoPatch EXCEPT !.status = s] : s \in {"PENDING", "CANCELLED", "NO_SHOW"}}

NextCreate ==
  \/ Return
  \/ /\ last = Idle
     /\ \E v \in {"v1", MissingId}, u \in UserIds \cup {MissingId}, d \in Dates,
           t \in StartTimes, n \in Durations :
          CreateAppointment(v, u, d, t, n, "NORMAL")
  \/ /\ last = Idle
     /\ \E id \in AppointmentIds, p \in CreatePatches : UpdateAppointment(id, p)
  \/ /\ last = Idle
     /\ \E id \in AppointmentIds : DeleteAppointment(id)

SpecCreate == Init /\ [][NextCreate]_vars


\* ------------------------------------------------------------ scheduler claims
\* Half-open intervals [s1, e1) and [s2, e2) share a point.
Intersect(s1, e1, s2, e2) == s1 < e2 /\ s2 < e1

\* C1: no two appointments of the same staff member whose status is neither
\* CANCELLED nor NO_SHOW have overlapping intervals [startTime, endTime).
C1_NoDoubleBooking ==
  \A i, j \in DOMAIN appointments :
    (/\ i # j
     /\ appointments[i].userId = appointments[j].userId
     /\ appointments[i].status \notin {"CANCELLED", "NO_SHOW"}
     /\ appointments[j].status \notin {"CANCELLED", "NO_SHOW"})
    => ~Intersect(appointments[i].startTime, appointments[i].endTime,
                  appointments[j].startTime, appointments[j].endTime)

\* C2: a create request for staff S on date D with interval [s, e) is answered
\* 409 exactly when an existing appointment of S on D, neither CANCELLED nor
\* NO_SHOW, has an interval [s', e') with s' < e and s < e'; a rejected request
\* creates nothing and leaves every table as it was.
C2_CreateConflictIff ==
  [][last'.op = "createAppointment" =>
       LET r == last'
           s == r.scheduledDate * MinutesPerDay + r.startTime
           e == s + r.duration
           clash == \E i \in DOMAIN appointments :
                      /\ appointments[i].userId = r.userId
                      /\ appointments[i].scheduledDate = r.scheduledDate
                      /\ appointments[i].status \notin {"CANCELLED", "NO_SHOW"}
                      /\ Intersect(appointments[i].startTime,
                                   appointments[i].endTime, s, e)
       IN /\ (r.code = 409) <=> clash
          /\ r.code = 409 =>
               UNCHANGED <<visitors, appointments, visits, nextAppointmentId,
                           nextVisitId>>
          /\ r.code = 200 =>
               /\ DOMAIN appointments' = DOMAIN appointments \cup {nextAppointmentId}
               /\ \A i \in DOMAIN appointments : appointments'[i] = appointments[i]
  ]_vars

\* C2 witness: a create was accepted although an active appointment of the
\* same staff member and date ends exactly where the new one starts.
C2_Witness ==
  /\ last.op = "createAppointment"
  /\ last.code = 200
  /\ \E i, j \in DOMAIN appointments :
       /\ j = nextAppointmentId - 1
       /\ i # j
       /\ appointments[i].userId = appointments[j].userId
       /\ appointments[i].scheduledDate = appointments[j].scheduledDate
       /\ appointments[i].status \notin {"CANCELLED", "NO_SHOW"}
       /\ appointments[i].endTime = appointments[j].startTime

\* The patch carries a date, a start time or a duration.
Timed(p) ==
  p.scheduledDate # AbsentInt \/ p.startTime # AbsentInt \/ p.duration # AbsentInt

\* C3: an update that carries a date, a start time or a duration is answered
\* 409 exactly when another appointment (never the one updated) of the
\* effective staff member on the effective date, neither CANCELLED nor NO_SHOW,
\* overlaps the effective interval; a 409 leaves the appointment and every
\* other row unchanged.
C3_UpdateConflictCheck ==
  [][(/\ last'.op = "updateAppointment"
      /\ last'.id \in DOMAIN appointments
      /\ Timed(last'.patch)) =>
       LET p == last'.patch
           old == appointments[last'.id]
           u == IF p.userId = ABSENT THEN old.userId ELSE p.userId
           d == IF p.scheduledDate = AbsentInt THEN old.scheduledDate
                ELSE p.scheduledDate
           s == IF p.startTime = AbsentInt THEN old.startTime
                ELSE d * MinutesPerDay + p.startTime
           e == s + (IF p.duration = AbsentInt THEN old.duration ELSE p.duration)
           clash == \E j \in DOMAIN appointments \ {last'.id} :
                      /\ appointments[j].userId = u
                      /\ appointments[j].scheduledDate = d
                      /\ appointments[j].status \notin {"CANCELLED", "NO_SHOW"}
                      /\ Intersect(appointments[j].startTime,
                                   appointments[j].endTime, s, e)
       IN /\ (last'.code = 409) <=> clash
          /\ last'.code = 409 =>
               UNCHANGED <<visitors, appointments, visits, nextAppointmentId,
                           nextVisitId>>
          /\ (~clash /\ u \in UserIds) =>
               /\ last'.code = 200
               /\ appointments'[last'.id].startTime = s
               /\ appointments'[last'.id].endTime = e
  ]_vars

\* C3 witness: an update carrying a start time was answered 409.
C3_Witness ==
  /\ last.op = "updateAppointment"
  /\ last.code = 409
  /\ last.patch.startTime # AbsentInt
  /\ last.id \in DOMAIN appointments

\* C4: an update that carries only a new staff member is answered 409 when the
\* appointment's interval overlaps an active appointment of that staff member.
C4_StaffOnlyChecked ==
  [][(/\ last'.op = "updateAppointment"
      /\ last'.id \in DOMAIN appointments
      /\ last'.patch.userId \in UserIds
      /\ ~Timed(last'.patch)
      /\ \E j \in DOMAIN appointments \ {last'.id} :
           /\ appointments[j].userId = last'.patch.userId
           /\ appointments[j].status \notin {"CANCELLED", "NO_SHOW"}
           /\ Intersect(appointments[j].startTime, appointments[j].endTime,
                        appointments[last'.id].startTime,
                        appointments[last'.id].endTime))
       => last'.code = 409
  ]_vars


\* ------------------------------------------------------------ visit claims
\* The tables of the store.
store == <<visitors, appointments, visits, nextAppointmentId, nextVisitId>>

\* The visitor has a visit IN_PROGRESS.
HasActiveVisit(visitorId) ==
  \E i \in DOMAIN visits :
    visits[i].visitorId = visitorId /\ visits[i].status = "IN_PROGRESS"

\* C5: every visitor has at most one visit with status IN_PROGRESS.
C5_SingleActiveVisit ==
  \A v \in DOMAIN visitors :
    \A i, j \in DOMAIN visits :
      (/\ visits[i].visitorId = v /\ visits[i].status = "IN_PROGRESS"
       /\ visits[j].visitorId = v /\ visits[j].status = "IN_PROGRESS") => i = j

\* C6: a check-in, through either entry point, for a visitor who has a visit
\* IN_PROGRESS creates no visit and leaves the visitors' counters and lastVisit
\* as they were; it is answered 409 whenever the staff member and the
\* appointment it names (if any) exist, whoever the staff member is.
C6_SecondCheckInRejected ==
  [][(/\ last'.op \in {"checkInVisitor", "createVisit"}
      /\ HasActiveVisit(last'.visitorId)) =>
       /\ last'.code # 200
       /\ UNCHANGED <<visits, nextVisitId, visitors>>
       /\ (/\ last'.userId \in UserIds
           /\ last'.appointmentId \in {NoId} \cup DOMAIN appointments)
          => last'.code = 409
  ]_vars

\* C6 witness: the queue check-in answered 409 to a request naming another
\* staff member than the one of the visitor's visit in progress.
C6_Witness ==
  /\ last.op = "checkInVisitor"
  /\ last.code = 409
  /\ \E i \in DOMAIN visits :
       /\ visits[i].visitorId = last.visitorId
       /\ visits[i].status = "IN_PROGRESS"
       /\ visits[i].userId # last.userId

\* C7: a request answered 400, 404 or 409 has modified no row.
C7_RejectedChangesNothing ==
  [][last'.code \in {400, 404, 409} => UNCHANGED store]_vars

\* C8: a visit is created IN_PROGRESS and its status changes only from
\* IN_PROGRESS to COMPLETED or to CANCELLED.
C8_VisitTransitions ==
  [][/\ \A i \in DOMAIN visits' \ DOMAIN visits : visits'[i].status = "IN_PROGRESS"
     /\ \A i \in DOMAIN visits' \cap DOMAIN visits :
          visits'[i].status # visits[i].status =>
            /\ visits[i].status = "IN_PROGRESS"
            /\ visits'[i].status \in {"COMPLETED", "CANCELLED"}
  ]_vars

\* C9: checkout and cancel answer 404 for a visit that does not exist and 400
\* for a visit that is not IN_PROGRESS (a visit already checked out among
\* them), and then leave every visit, visitor and appointment as it was.
C9_CloseGuards ==
  [][last'.op \in {"checkOutVisitor", "cancelVisit"} =>
       /\ last'.visitId \notin DOMAIN visits => last'.code = 404
       /\ (/\ last'.visitId \in DOMAIN visits
           /\ visits[last'.visitId].status # "IN_PROGRESS") => last'.code = 400
       /\ last'.code # 200 => UNCHANGED store
  ]_vars

\* C9 witness: a second checkout, carrying new notes and made after the clock
\* moved, was answered 400 and the visit kept its checkOutTime and notes.
C9_Witness ==
  /\ last.op = "checkOutVisitor"
  /\ last.code = 400
  /\ last.notes = "out"
  /\ last.visitId \in DOMAIN visits
  /\ visits[last.visitId].status = "COMPLETED"
  /\ visits[last.visitId].checkOutTime < now
  /\ visits[last.visitId].notes = "in"

\* C10: a successful checkout (cancel) sets the visit to COMPLETED (CANCELLED)
\* with checkOutTime stamped, sets the linked appointment, if any, to the same
\* status, replaces the notes only when the request carries notes, and changes
\* no other visit, visitor or appointment.
C10_CloseEffect ==
  [][(last'.op \in {"checkOutVisitor", "cancelVisit"} /\ last'.code = 200) =>
       LET id == last'.visitId
           target == IF last'.op = "checkOutVisitor" THEN "COMPLETED"
                     ELSE "CANCELLED"
           old == visits[id]
           new == visits'[id]
           sat == IF last'.op = "checkOutVisitor" /\ last'.satisfaction # SatAbsent
                  THEN last'.satisfaction ELSE old.satisfaction
       IN /\ new = [old EXCEPT !.status = target,
                               !.checkOutTime = now,
                               !.notes = IF last'.notes \in {NULL, ""}
                                         THEN old.notes ELSE last'.notes,
                               !.satisfaction = sat]
          /\ new.checkOutTime # NoTime
          /\ DOMAIN visits' = DOMAIN visits
          /\ \A j \in DOMAIN visits \ {id} : visits'[j] = visits[j]
          /\ visitors' = visitors
          /\ DOMAIN appointments' = DOMAIN appointments
          /\ \A a \in DOMAIN appointments :
               appointments'[a] =
                 IF a = old.appointmentId
                 THEN [appointments[a] EXCEPT !.status = target]
                 ELSE appointments[a]
  ]_vars

\* C10 witness: a checkout without notes closed a visit linked to an
\* appointment; the visit kept the notes of its check-in and the appointment
\* is COMPLETED while another appointment is not.
C10_Witness ==
  /\ last.op = "checkOutVisitor"
  /\ last.code = 200
  /\ last.notes = NULL
  /\ visits[last.visitId].notes = "in"
  /\ visits[last.visitId].status = "COMPLETED"
  /\ visits[last.visitId].appointmentId \in DOMAIN appointments
  /\ appointments[visits[last.visitId].appointmentId].status = "COMPLETED"
  /\ \E a \in DOMAIN appointments : appointments[a].status = "PENDING"

\* C11: a visit carries a checkOutTime exactly when it is COMPLETED or
\* CANCELLED, whichever route closed it.
C11_CheckOutTimeIffClosed ==
  \A i \in DOMAIN visits :
    visits[i].checkOutTime # NoTime <=> visits[i].status \in {"COMPLETED", "CANCELLED"}

\* ------------------------------------------------------------ visit runs
VisitIds == 1 .. MaxVisits

\* Check-ins through both entry points, closings, PUT and DELETE of visits;
\* visitor v1 may hold an appointment with staff member u1.
NextVisit ==
  \/ Return
  \/ Tick
  \/ /\ last = Idle
     /\ CreateAppointment("v1", "u1", 0, 600, MinDuration, "NORMAL")
  \/ /\ last = Idle
     /\ \E v \in VisitorIds \cup {MissingId}, u \in UserIds \cup {MissingId},
           a \in {NoId} \cup AppointmentIds :
          CheckInVisitor(v, u, a, NULL)
  \/ /\ last = Idle
     /\ \E v \in VisitorIds \cup {MissingId}, u \in UserIds \cup {MissingId},
           a \in {NoId} \cup AppointmentIds :
          CreateVisit(v, u, a, NULL)
  \/ /\ last = Idle
     /\ \E id \in VisitIds : CheckOutVisitor(id, NULL, SatAbsent)
  \/ /\ last = Idle
     /\ \E id \in VisitIds : CancelVisit(id, NULL)
  \/ /\ last = Idle
     /\ \E id \in VisitIds, st \in VisitStatus : UpdateVisit(id, st, ABSENT, SatAbsent)
  \/ /\ last = Idle
     /\ \E id \in VisitIds : DeleteVisit(id)

SpecVisit == Init /\ [][NextVisit]_vars


\* Checkout and cancel with notes and a rating, over visits opened by the queue
\* check-in with or without an appointment; each visitor may hold one
\* appointment with staff member u1.
VisitSlots == {<<"v1", 600>>, <<"v2", 615>>}

NextClose ==
  \/ Return
  \/ Tick
  \/ /\ last = Idle
     /\ \E vt \in VisitSlots :
          CreateAppointment(vt[1], "u1", 0, vt[2], MinDuration, "NORMAL")
  \/ /\ last = Idle
     /\ \E v \in VisitorIds, a \in {NoId} \cup AppointmentIds :
          CheckInVisitor(v, "u1", a, "in")
  \/ /\ last = Idle
     /\ \E id \in VisitIds, n \in {NULL, "out"}, sat \in {SatAbsent, 4} :
          CheckOutVisitor(id, n, sat)
  \/ /\ last = Idle
     /\ \E id \in VisitIds, n \in {"", "out"} : CancelVisit(id, n)
  \/ /\ last = Idle
     /\ \E id \in VisitIds, st \in {"IN_PROGRESS", "NO_SHOW"} :
          UpdateVisit(id, st, ABSENT, SatAbsent)

SpecClose == Init /\ [][NextClose]_vars

\* ------------------------------------------------------------ concurrent check-ins
\* Two requests handled at the same time.  A handler runs from one await to
\* the next without interruption; every database call is awaited, so another
\* handler may run between any two of its database calls.  `calls` holds each
\* caller's position (the database call it is about to make), the arguments of
\* its request, its status once answered, and the number of visit rows that
\* existed when it looked for an active visit.
Callers == {"c1", "c2"}

\* The entry points are POST /api/queue/actions?action=checkin and POST /api/visits.
CheckInOps == {"checkInVisitor", "createVisit"}

\* A request arrives: the body is parsed, no database call is made yet.
CheckInCall(c, op, visitorId, userId, appointmentId) ==
  /\ c \notin DOMAIN calls
  /\ calls' = Insert(calls, c,
                     [op |-> op, pc |-> "references", visitorId |-> visitorId,
                      userId |-> userId, appointmentId |-> appointmentId,
                      code |-> 0, seen |-> 0])
  /\ UNCHANGED <<visitors, appointments, visits, nextAppointmentId, nextVisitId, now,
                 last, issues, resumes>>

\* The handler of caller c stands before the database call named pc.
At(c, pc) == c \in DOMAIN calls /\ calls[c].pc = pc

\* return NextResponse.json(..., { status: code })
Answer(c, code) == [calls EXCEPT ![c] = [@ EXCEPT !.pc = "done", !.code = code]]

\* The handler goes on to its next database call.
Goto(c, pc) == [calls EXCEPT ![c] = [@ EXCEPT !.pc = pc]]

\* db.visitor.findUnique and db.user.findUnique (neither table changes here).
CheckInReferences(c) ==
  /\ At(c, "references")
  /\ calls' = IF calls[c].visitorId \notin DOMAIN visitors \/ calls[c].userId \notin UserIds
              THEN Answer(c, 404)
              ELSE Goto(c, IF calls[c].op = "createVisit" THEN "appointment"
                           ELSE "activeVisit")
  /\ UNCHANGED <<visitors, appointments, visits, nextAppointmentId, nextVisitId, now,
                 last, issues, resumes>>

\* db.visit.findFirst({ where: { visitorId, status: IN_PROGRESS } })
CheckInActiveVisit(c) ==
  /\ At(c, "activeVisit")
  /\ calls' = IF ActiveVisit(calls[c].visitorId) # {}
              THEN [Answer(c, 409) EXCEPT ![c].seen = nextVisitId]
              ELSE [Goto(c, IF calls[c].op = "createVisit" THEN "create"
                            ELSE "appointment") EXCEPT ![c].seen = nextVisitId]
  /\ UNCHANGED <<visitors, appointments, visits, nextAppointmentId, nextVisitId, now,
                 last, issues, resumes>>

\* if (appointmentId): db.appointment.findUnique, then db.appointment.update
\* (CONFIRMED from the queue, COMPLETED from POST /api/visits).
CheckInAppointment(c) ==
  LET id == calls[c].appointmentId
      next == IF calls[c].op = "createVisit" THEN "activeVisit" ELSE "create"
  IN /\ At(c, "appointment")
     /\ calls' = IF id # NoId /\ id \notin DOMAIN appointments
                 THEN Answer(c, 404) ELSE Goto(c, next)
     /\ appointments' = IF id \in DOMAIN appointments
                        THEN SetAppointmentStatus(id,
                               IF calls[c].op = "createVisit" THEN "COMPLETED"
                               ELSE "CONFIRMED")
                        ELSE appointments
     /\ UNCHANGED <<visitors, visits, nextAppointmentId, nextVisitId, now,
                    last, issues, resumes>>

\* db.visit.create against a store that refuses a second IN_PROGRESS visit of
\* a visitor: the insert fails and the request is answered 409.
CheckInCreateUnique(c) ==
  /\ At(c, "create")
  /\ nextVisitId <= MaxVisits
  /\ IF ActiveVisit(calls[c].visitorId) # {}
     THEN /\ calls' = Answer(c, 409)
          /\ UNCHANGED <<visits, nextVisitId>>
     ELSE /\ visits' = Insert(visits, nextVisitId,
                              NewVisit(calls[c].visitorId, calls[c].userId,
                                       calls[c].appointmentId, NULL))
          /\ nextVisitId' = nextVisitId + 1
          /\ calls' = Goto(c, "count")
  /\ UNCHANGED <<visitors, appointments, nextAppointmentId, now, last, issues, resumes>>

\* db.visit.create
CheckInCreate(c) ==
  /\ At(c, "create")
  /\ nextVisitId <= MaxVisits
  /\ visits' = Insert(visits, nextVisitId,
                      NewVisit(calls[c].visitorId, calls[c].userId,
                               calls[c].appointmentId, NULL))
  /\ nextVisitId' = nextVisitId + 1
  /\ calls' = Goto(c, "count")
  /\ UNCHANGED <<visitors, appointments, nextAppointmentId, now, last, issues, resumes>>

\* db.visitor.update({ visitCount: { increment: 1 }, lastVisit }), then the
\* response.
CheckInCount(c) ==
  /\ At(c, "count")
  /\ visitors' = CountVisit(calls[c].visitorId)
  /\ calls' = Answer(c, 200)
  /\ UNCHANGED <<appointments, visits, nextAppointmentId, nextVisitId, now,
                 last, issues, resumes>>

\* Two callers, each making one check-in for an existing visitor with an
\* existing staff member; visitor v1 may hold an appointment.
NextRaceVisit ==
  \/ Return
  \/ /\ last = Idle
     /\ CreateAppointment("v1", "u1", 0, 600, MinDuration, "NORMAL")
  \/ \E c \in Callers, op \in CheckInOps, v \in VisitorIds, u \in UserIds,
        a \in {NoId, 1} :
       CheckInCall(c, op, v, u, a)
  \/ \E c \in Callers : CheckInReferences(c)
  \/ \E c \in Callers : CheckInActiveVisit(c)
  \/ \E c \in Callers : CheckInAppointment(c)
  \/ \E c \in Callers : CheckInCreate(c)
  \/ \E c \in Callers : CheckInCount(c)

SpecRaceVisit == Init /\ [][NextRaceVisit]_vars

\* Both callers were answered after checking in the same visitor, and each
\* looked for an active visit when no visit of that visitor existed and before
\* the other inserted its visit.
RacedCheckIns(c1, c2) ==
  /\ c1 # c2
  /\ At(c1, "done") /\ At(c2, "done")
  /\ calls[c1].visitorId = calls[c2].visitorId
  /\ calls[c1].seen = calls[c2].seen
  /\ calls[c1].seen # 0
  /\ \A i \in DOMAIN visits :
       i < calls[c1].seen => visits[i].visitorId # calls[c1].visitorId
  /\ 404 \notin {calls[c1].code, calls[c2].code}

\* C12: two concurrent check-ins for one visitor whose active-visit lookups
\* both run before either insert both succeed and leave the visitor with two
\* IN_PROGRESS visits.
C12_RacingCheckInsBothSucceed ==
  \A c1, c2 \in Callers :
    RacedCheckIns(c1, c2) =>
      /\ calls[c1].code = 200
      /\ calls[c2].code = 200
      /\ Cardinality({i \in DOMAIN visits :
                        /\ visits[i].visitorId = calls[c1].visitorId
                        /\ visits[i].status = "IN_PROGRESS"}) = 2

\* C12 witness: the two entry points raced for visitor v1 with different staff
\* members, both were answered 200 and v1 has two visits in progress.
C12_Witness ==
  /\ RacedCheckIns("c1", "c2")
  /\ calls["c1"].op = "checkInVisitor" /\ calls["c2"].op = "createVisit"
  /\ calls["c1"].userId # calls["c2"].userId
  /\ calls["c1"].code = 200 /\ calls["c2"].code = 200
  /\ ~C5_SingleActiveVisit

\* ------------------------------------------------------------ concurrent bookings
\* POST /api/appointments: the request arrives and the interval is computed.
BookCall(c, visitorId, userId, scheduledDate, startTime, duration) ==
  /\ c \notin DOMAIN calls
  /\ calls' = Insert(calls, c,
                     [op |-> "createAppointment", pc |-> "conflicts",
                      visitorId |-> visitorId, userId |-> userId,
                      scheduledDate |-> scheduledDate,
                      startTime |-> DateTime(scheduledDate, startTime),
                      endTime |-> DateTime(scheduledDate, startTime) + duration,
                      duration |-> duration, code |-> 0, seen |-> 0])
  /\ UNCHANGED <<visitors, appointments, visits, nextAppointmentId, nextVisitId, now,
                 last, issues, resumes>>

\* const conflicts = await db.appointment.findMany(...)
BookConflicts(c) ==
  /\ At(c, "conflicts")
  /\ calls' = IF CreateConflicts(calls[c].userId, calls[c].scheduledDate,
                                 calls[c].startTime, calls[c].endTime) # {}
              THEN [Answer(c, 409) EXCEPT ![c].seen = nextAppointmentId]
              ELSE [Goto(c, "references") EXCEPT ![c].seen = nextAppointmentId]
  /\ UNCHANGED <<visitors, appointments, visits, nextAppointmentId, nextVisitId, now,
                 last, issues, resumes>>

\* db.visitor.findUnique and db.user.findUnique
BookReferences(c) ==
  /\ At(c, "references")
  /\ calls' = IF calls[c].visitorId \notin DOMAIN visitors \/ calls[c].userId \notin UserIds
              THEN Answer(c, 404) ELSE Goto(c, "create")
  /\ UNCHANGED <<visitors, appointments, visits, nextAppointmentId, nextVisitId, now,
                 last, issues, resumes>>

\* The row written by db.appointment.create for the request of caller c.
BookedRow(c) ==
  [visitorId |-> calls[c].visitorId, userId |-> calls[c].userId,
   scheduledDate |-> calls[c].scheduledDate, startTime |-> calls[c].startTime,
   endTime |-> calls[c].endTime, duration |-> calls[c].duration,
   status |-> "PENDING", priority |-> "NORMAL"]

\* db.appointment.create against a store that refuses an overlapping active
\* appointment of the same staff member: the insert fails, answered 409.
BookCreateExclusive(c) ==
  /\ At(c, "create")
  /\ nextAppointmentId <= MaxAppointments
  /\ IF CreateConflicts(calls[c].userId, calls[c].scheduledDate,
                        calls[c].startTime, calls[c].endTime) # {}
     THEN /\ calls' = Answer(c, 409)
          /\ UNCHANGED <<appointments, nextAppointmentId>>
     ELSE /\ appointments' = Insert(appointments, nextAppointmentId, BookedRow(c))
          /\ nextAppointmentId' = nextAppointmentId + 1
          /\ calls' = Answer(c, 200)
  /\ UNCHANGED <<visitors, visits, nextVisitId, now, last, issues, resumes>>

\* db.appointment.create, then the response.
BookCreate(c) ==
  /\ At(c, "create")
  /\ nextAppointmentId <= MaxAppointments
  /\ appointments' = Insert(appointments, nextAppointmentId, BookedRow(c))
  /\ nextAppointmentId' = nextAppointmentId + 1
  /\ calls' = Answer(c, 200)
  /\ UNCHANGED <<visitors, visits, nextVisitId, now, last, issues, resumes>>

\* Two callers, each making one create request.
NextRaceBook ==
  \/ \E c \in Callers, v \in {"v1", MissingId}, u \in UserIds, d \in Dates,
        s \in StartTimes, n \in Durations :
       BookCall(c, v, u, d, s, n)
  \/ \E c \in Callers : BookConflicts(c)
  \/ \E c \in Callers : BookReferences(c)
  \/ \E c \in Callers : BookCreate(c)

SpecRaceBook == Init /\ [][NextRaceBook]_vars

\* Both callers were answered after asking for overlapping intervals of the
\* same staff member, and each ran its conflict query when no clashing
\* appointment existed and before the other inserted its row.
RacedBookings(c1, c2) ==
  /\ c1 # c2
  /\ At(c1, "done") /\ At(c2, "done")
  /\ calls[c1].userId = calls[c2].userId
  /\ Intersect(calls[c1].startTime, calls[c1].endTime,
               calls[c2].startTime, calls[c2].endTime)
  /\ calls[c1].seen = calls[c2].seen
  /\ calls[c1].seen # 0
  /\ \A i \in DOMAIN appointments :
       (i < calls[c1].seen /\ appointments[i].userId = calls[c1].userId) =>
         /\ ~Intersect(appointments[i].startTime, appointments[i].endTime,
                       calls[c1].startTime, calls[c1].endTime)
         /\ ~Intersect(appointments[i].startTime, appointments[i].endTime,
                       calls[c2].startTime, calls[c2].endTime)
  /\ 404 \notin {calls[c1].code, calls[c2].code}

\* C13: two concurrent create requests for overlapping intervals of one staff
\* member whose conflict queries both run before either insert both succeed
\* and leave two overlapping active appointments.
C13_RacingBookingsBothSucceed ==
  \A c1, c2 \in Callers :
    RacedBookings(c1, c2) =>
      /\ calls[c1].code = 200
      /\ calls[c2].code = 200
      /\ \E i, j \in DOMAIN appointments :
           /\ i # j
           /\ appointments[i].userId = calls[c1].userId
           /\ appointments[j].userId = calls[c1].userId
           /\ ActiveAppointment(appointments[i])
           /\ ActiveAppointment(appointments[j])
           /\ Intersect(appointments[i].startTime, appointments[i].endTime,
                        appointments[j].startTime, appointments[j].endTime)

\* C13 witness: two racing requests for staff member u1, one for
\* [10:00, 10:30) and one for [10:15, 10:30), were both answered 200 and the
\* table holds two overlapping active appointments.
C13_Witness ==
  /\ RacedBookings("c1", "c2")
  /\ calls["c1"].userId = "u1"
  /\ calls["c1"].startTime # calls["c2"].startTime
  /\ calls["c1"].code = 200 /\ calls["c2"].code = 200
  /\ ~C1_NoDoubleBooking

\* ------------------------------------------------------------ queue status
\* Priority of an appointment and  priorityOrder = { URGENT: 4, HIGH: 3, NORMAL: 2, LOW: 1 }
Priority == {"URGENT", "HIGH", "NORMAL", "LOW"}
priorityOrder == [p \in Priority |->
                    CASE p = "URGENT" -> 4 [] p = "HIGH" -> 3
                      [] p = "NORMAL" -> 2 [] p = "LOW" -> 1]

\* a.appointment?.priority || Priority.NORMAL
QueuePriority(id) ==
  IF visits[id].appointmentId \in DOMAIN appointments
  THEN appointments[visits[id].appointmentId].priority
  ELSE "NORMAL"

\* A comparator that looks at the check-in time only.
CompareByTimeOnly(a, b) == visits[a].checkInTime - visits[b].checkInTime

\* The comparator given to Array.prototype.sort.
Compare(a, b) ==
  IF QueuePriority(a) # QueuePriority(b)
  THEN priorityOrder[QueuePriority(b)] - priorityOrder[QueuePriority(a)]
  ELSE visits[a].checkInTime - visits[b].checkInTime

\* Array.prototype.sort is stable: x goes behind every element that does not
\* compare greater than it.
RECURSIVE SortedInsert(_, _)
SortedInsert(s, x) ==
  IF s = <<>> THEN <<x>>
  ELSE IF Compare(Head(s), x) <= 0 THEN <<Head(s)>> \o SortedInsert(Tail(s), x)
  ELSE <<x>> \o s

RECURSIVE Sort(_)
Sort(s) == IF s = <<>> THEN <<>>
           ELSE SortedInsert(Sort(SubSeq(s, 1, Len(s) - 1)), s[Len(s)])

\* db.visit.findMany({ where: { status: IN_PROGRESS, ...(userId && { userId }) },
\* orderBy: { checkInTime: 'asc' } }): the matching rows, each once, by
\* check-in time; rows with equal check-in times in any order.
FindActiveVisits(userId) ==
  LET ids == {i \in DOMAIN visits :
                /\ visits[i].status = "IN_PROGRESS"
                /\ userId \in {NULL, ""} \/ visits[i].userId = userId}
  IN {s \in [1 .. Cardinality(ids) -> ids] :
        /\ \A p, q \in DOMAIN s : p # q => s[p] # s[q]
        /\ \A p, q \in DOMAIN s :
             p < q => visits[s[p]].checkInTime <= visits[s[q]].checkInTime}

MsPerMinute == 60000   \* 1000 * 60

\* today.setHours(0, 0, 0, 0): the first minute of the day of `now`.
Today == (now \div MinutesPerDay) * MinutesPerDay

\* db.visit.findMany({ where: { status: COMPLETED, checkInTime: { gte: today,
\* lt: tomorrow }, userId? }, include: { visitor, user } }): the appointment of
\* a visit is not loaded.
CompletedVisitsToday(userId) ==
  {i \in DOMAIN visits :
     /\ visits[i].status = "COMPLETED"
     /\ visits[i].checkInTime >= Today
     /\ visits[i].checkInTime < Today + MinutesPerDay
     /\ userId \in {NULL, ""} \/ visits[i].userId = userId}

\* db.appointment.findMany({ where: { scheduledDate: today, status: { notIn },
\* visits: { none: {} }, userId? } })
ScheduledAppointmentsToday(userId) ==
  {a \in DOMAIN appointments :
     /\ DateTime(appointments[a].scheduledDate, 0) = Today
     /\ appointments[a].status \notin {"CANCELLED", "COMPLETED", "NO_SHOW"}
     /\ \A i \in DOMAIN visits : visits[i].appointmentId # a
     /\ userId \in {NULL, ""} \/ appointments[a].userId = userId}

\* visit.appointment of a row of completedVisitsToday: undefined, the query
\* does not include the relation.
NoAppointment == NoId
LoadedAppointment(i) == NoAppointment

\* The reduce of the wait times, in milliseconds.
RECURSIVE TotalWaitTime(_)
TotalWaitTime(S) ==
  IF S = {} THEN 0
  ELSE LET i == CHOOSE x \in S : TRUE
           appointment == LoadedAppointment(i)
           waitTime == IF appointment # NoAppointment
                       THEN (visits[i].checkInTime - appointments[appointment].startTime)
                              * MsPerMinute
                       ELSE 0
       IN waitTime + TotalWaitTime(S \ {i})

\* The reduce of the visit durations, in milliseconds.
RECURSIVE TotalDuration(_)
TotalDuration(S) ==
  IF S = {} THEN 0
  ELSE LET i == CHOOSE x \in S : TRUE
           duration == IF visits[i].checkOutTime # NoTime
                       THEN (visits[i].checkOutTime - visits[i].checkInTime) * MsPerMinute
                       ELSE 0
       IN duration + TotalDuration(S \ {i})

\* total / length / (1000 * 60), kept as an exact fraction of minutes; 0 when
\* there is no completed visit.
Average(total, length) ==
  IF length > 0 THEN [num |-> total, den |-> length * MsPerMinute]
  ELSE [num |-> 0, den |-> 1]

\* queueStats
QueueStats(userId, activeVisits) ==
  LET completedVisitsToday == CompletedVisitsToday(userId)
      length == Cardinality(completedVisitsToday)
  IN [totalActive |-> Len(activeVisits),
      totalCompletedToday |-> length,
      totalScheduledToday |-> Cardinality(ScheduledAppointmentsToday(userId)),
      averageWaitTime |-> Average(TotalWaitTime(completedVisitsToday), length),
      averageVisitDuration |-> Average(TotalDuration(completedVisitsToday), length)]

\* GET /api/queue: the ids of activeVisits in the order of the response, the
\* ids of completedVisitsToday and the statistics.
GetQueueStatus(userId) ==
  /\ \E activeVisits \in FindActiveVisits(userId) :
       last' = [op |-> "getQueueStatus", code |-> 200, userId |-> userId,
                activeVisits |-> Sort(activeVisits),
                completedVisitsToday |-> CompletedVisitsToday(userId),
                queueStats |-> QueueStats(userId, activeVisits)]
  /\ UNCHANGED <<visitors, appointments, visits, nextAppointmentId, nextVisitId, now,
                 issues, resumes, calls>>

\* Tables for the queue: three visitors, each with one visit that is open or
\* closed, with either staff member, checked in at either instant, walk-in or
\* linked to one of two appointments of any priority.
QueueVisitors == <<"v1", "v2", "v3">>
QueueVisitRows(v) ==
  {[visitorId |-> v, userId |-> u, appointmentId |-> a, checkInTime |-> t,
    checkOutTime |-> IF st = "COMPLETED" THEN t ELSE NoTime, status |-> st,
    notes |-> NULL, satisfaction |-> SatNull] :
     u \in UserIds, a \in {NoId, 1, 2}, t \in {0, 1}, st \in {"IN_PROGRESS", "COMPLETED"}}
QueueAppointmentRow(v, p) ==
  [visitorId |-> v, userId |-> "u1", scheduledDate |-> 0,
   startTime |-> DateTime(0, IF v = "v1" THEN 600 ELSE 615),
   endTime |-> DateTime(0, IF v = "v1" THEN 600 ELSE 615) + MinDuration,
   duration |-> MinDuration, status |-> "CONFIRMED", priority |-> p]

InitQueue ==
  /\ visitors = [v \in {QueueVisitors[i] : i \in 1 .. 3} |->
                   [visitCount |-> 1, lastVisit |-> 1]]
  /\ \E p1, p2 \in Priority :
       appointments = <<QueueAppointmentRow("v1", p1), QueueAppointmentRow("v2", p2)>>
  /\ \E r1 \in QueueVisitRows("v1"), r2 \in QueueVisitRows("v2"),
        r3 \in QueueVisitRows("v3") :
       visits = <<r1, r2, r3>>
  /\ nextAppointmentId = 3
  /\ nextVisitId = 4
  /\ now = 1
  /\ last = Idle
  /\ issues = <<>>
  /\ resumes = <<>>
  /\ calls = <<>>

NextQueue ==
  \/ Return
  \/ /\ last = Idle
     /\ \E u \in {NULL} \cup UserIds : GetQueueStatus(u)

SpecQueue == InitQueue /\ [][NextQueue]_vars

\* Priority p is strictly higher than priority q: URGENT > HIGH > NORMAL > LOW.
Outranks(p, q) ==
  <<p, q>> \in {<<"URGENT", "HIGH">>, <<"URGENT", "NORMAL">>, <<"URGENT", "LOW">>,
                <<"HIGH", "NORMAL">>, <<"HIGH", "LOW">>, <<"NORMAL", "LOW">>}

\* The priority a visit counts with: its appointment's, NORMAL for a walk-in.
QueueRank(id) ==
  IF visits[id].appointmentId = NoId THEN "NORMAL"
  ELSE appointments[visits[id].appointmentId].priority

\* C14: the queue returned by GET /queue holds exactly the IN_PROGRESS visits
\* (of the staff member asked for, when one is given), each once, and whenever
\* a is listed before b, a has a strictly higher priority or the same priority
\* and a check-in time not later than b's.
C14_QueueOrder ==
  last.op = "getQueueStatus" =>
    LET q == last.activeVisits
    IN /\ {q[p] : p \in DOMAIN q} =
            {i \in DOMAIN visits :
               /\ visits[i].status = "IN_PROGRESS"
               /\ last.userId # NULL => visits[i].userId = last.userId}
       /\ \A p1, p2 \in DOMAIN q : p1 # p2 => q[p1] # q[p2]
       /\ \A p1, p2 \in DOMAIN q :
            p1 < p2 =>
              \/ Outranks(QueueRank(q[p1]), QueueRank(q[p2]))
              \/ /\ QueueRank(q[p1]) = QueueRank(q[p2])
                 /\ visits[q[p1]].checkInTime <= visits[q[p2]].checkInTime

\* C14 witness: a queue of three visits in which an URGENT visit that checked
\* in last is listed first, followed by a walk-in and then by a LOW visit that
\* checked in before the URGENT one.
C14_Witness ==
  /\ last.op = "getQueueStatus"
  /\ last.userId = NULL
  /\ Len(last.activeVisits) = 3
  /\ QueueRank(last.activeVisits[1]) = "URGENT"
  /\ visits[last.activeVisits[1]].checkInTime > visits[last.activeVisits[2]].checkInTime
  /\ visits[last.activeVisits[2]].appointmentId = NoId
  /\ QueueRank(last.activeVisits[3]) = "LOW"
  /\ visits[last.activeVisits[3]].checkInTime < visits[last.activeVisits[1]].checkInTime

\* ------------------------------------------------------------ issues
MaxIssues == 2         \* issue rows ever created
UnsetTime == -2        \* a date field the request does not carry

IssueStatus == {"OPEN", "IN_PROGRESS", "RESOLVED", "CLOSED", "ESCALATED"}

\* The status of a new issue: the default of the Issue table.
DefaultIssueStatus == "OPEN"

\* POST /api/issues: the row takes the default status and no resolvedDate.
CreateIssue(visitorId, assignedUserId) ==
  LET code == IF visitorId # NULL /\ visitorId \notin DOMAIN visitors THEN 404
              ELSE IF assignedUserId # NULL /\ assignedUserId \notin UserIds THEN 404
              ELSE 200
  IN /\ code = 200 => Len(issues) < MaxIssues
     /\ last' = [op |-> "createIssue", code |-> code]
     /\ issues' = IF code = 200
                  THEN Append(issues, [status |-> DefaultIssueStatus, resolvedDate |-> NoTime,
                                       visitorId |-> visitorId,
                                       assignedUserId |-> assignedUserId])
                  ELSE issues
     /\ UNCHANGED <<visitors, appointments, visits, nextAppointmentId, nextVisitId, now,
                    resumes, calls>>

\* The resolvedDate written by updateIssue: the value of the request if it
\* carries one, replaced by the stamp when the new status is RESOLVED or CLOSED
\* and the stored resolvedDate is null, and by null when the new status is any
\* other one.
ResolvedDate(existingIssue, status, resolvedDate) ==
  IF status # ABSENT /\ status \notin {"RESOLVED", "CLOSED"} THEN NoTime
  ELSE IF status \in {"RESOLVED", "CLOSED"} /\ existingIssue.resolvedDate = NoTime THEN now
  ELSE IF resolvedDate # UnsetTime THEN resolvedDate
  ELSE existingIssue.resolvedDate

\* PUT /api/issues/[id]
UpdateIssue(id, status, resolvedDate, assignedUserId) ==
  LET found == id \in DOMAIN issues
      existingIssue == issues[id]
      code == IF ~found THEN 404
              ELSE IF assignedUserId \notin {ABSENT, NULL} /\ assignedUserId \notin UserIds
                   THEN 404
              ELSE 200
  IN /\ last' = [op |-> "updateIssue", code |-> code, id |-> id, status |-> status,
                 resolvedDate |-> resolvedDate]
     /\ issues' = IF code = 200
                  THEN [issues EXCEPT ![id] =
                          [@ EXCEPT !.status = IF status = ABSENT THEN @ ELSE status,
                                    !.resolvedDate =
                                       ResolvedDate(existingIssue, status, resolvedDate),
                                    !.assignedUserId = IF assignedUserId = ABSENT
                                                       THEN @ ELSE assignedUserId]]
                  ELSE issues
     /\ UNCHANGED <<visitors, appointments, visits, nextAppointmentId, nextVisitId, now,
                    resumes, calls>>

IssueIds == 1 .. MaxIssues

\* Issues created and patched; a patch carries a status, a resolvedDate (null
\* or a date), an assignee, or a status together with a resolvedDate.
NextIssue ==
  \/ Return
  \/ Tick
  \/ /\ last = Idle
     /\ \E v \in {NULL, "v1", MissingId}, u \in {NULL, MissingId} : CreateIssue(v, u)
  \/ /\ last = Idle
     /\ \E id \in IssueIds \cup {MaxIssues + 1}, st \in IssueStatus \cup {ABSENT},
           rd \in {UnsetTime, NoTime, 0}, u \in {ABSENT, "u1", MissingId} :
          /\ u # ABSENT => (st = ABSENT /\ rd = UnsetTime)
          /\ UpdateIssue(id, st, rd, u)

SpecIssue == Init /\ [][NextIssue]_vars

\* C15: an issue has a resolvedDate exactly when its status is RESOLVED or
\* CLOSED.
C15_ResolvedDateIffResolved ==
  \A i \in DOMAIN issues :
    issues[i].resolvedDate # NoTime <=> issues[i].status \in {"RESOLVED", "CLOSED"}

\* C16: a patch that moves an issue into RESOLVED or CLOSED stamps resolvedDate
\* with the current time, a patch that keeps it in {RESOLVED, CLOSED} leaves the
\* stamp as it is, and a patch to any other status sets resolvedDate to null.
C16_ResolvedDateStamping ==
  [][(last'.op = "updateIssue" /\ last'.code = 200 /\ last'.status # ABSENT) =>
       LET old == issues[last'.id]
           new == issues'[last'.id]
           resolved == {"RESOLVED", "CLOSED"}
       IN /\ (last'.status \in resolved /\ old.status \notin resolved)
               => new.resolvedDate = now
          /\ (last'.status \in resolved /\ old.status \in resolved)
               => (new.resolvedDate = old.resolvedDate /\ new.resolvedDate # NoTime)
          /\ last'.status \notin resolved => new.resolvedDate = NoTime
  ]_vars

\* ------------------------------------------------------------ resumes
MaxResumes == 3        \* resume rows ever created

\* The isActive of a new resume: the default of the Resume table.
DefaultResumeActive == TRUE

\* db.resume.findFirst({ where: { isActive: true } }), without the visitorId.
ExistingResumeOfAnyone(visitorId) ==
  {id \in DOMAIN resumes : resumes[id].isActive}

\* db.resume.findFirst({ where: { visitorId, isActive: true } })
ExistingResume(visitorId) ==
  {id \in DOMAIN resumes : resumes[id].visitorId = visitorId /\ resumes[id].isActive}

\* POST /api/resumes: the active resume found, if any, is deactivated and the
\* new row is created.
CreateResume(visitorId, title) ==
  LET found == visitorId \in DOMAIN visitors
      new == [visitorId |-> visitorId, title |-> title,
              isActive |-> DefaultResumeActive]
  IN /\ found => Len(resumes) < MaxResumes
     /\ last' = [op |-> "createResume", code |-> IF found THEN 200 ELSE 404,
                 visitorId |-> visitorId]
     /\ IF ~found THEN resumes' = resumes
        ELSE IF ExistingResume(visitorId) = {} THEN resumes' = Append(resumes, new)
        ELSE \E existingResume \in ExistingResume(visitorId) :
               resumes' = Append([resumes EXCEPT ![existingResume].isActive = FALSE], new)
     /\ UNCHANGED <<visitors, appointments, visits, nextAppointmentId, nextVisitId, now,
                    issues, calls>>

\* PUT /api/resumes/[id]: the body is written as it is  (data: body).
UpdateResume(id, body) ==
  LET found == id \in DOMAIN resumes
  IN /\ last' = [op |-> "updateResume", code |-> IF found THEN 200 ELSE 404, id |-> id]
     /\ resumes' = IF found
                   THEN [resumes EXCEPT ![id] =
                           [f \in DOMAIN @ |-> IF f \in DOMAIN body THEN body[f] ELSE @[f]]]
                   ELSE resumes
     /\ UNCHANGED <<visitors, appointments, visits, nextAppointmentId, nextVisitId, now,
                    issues, calls>>

\* DELETE /api/resumes/[id]: soft delete.
DeleteResume(id) ==
  LET found == id \in DOMAIN resumes
  IN /\ last' = [op |-> "deleteResume", code |-> IF found THEN 200 ELSE 404, id |-> id]
     /\ resumes' = IF found THEN [resumes EXCEPT ![id].isActive = FALSE] ELSE resumes
     /\ UNCHANGED <<visitors, appointments, visits, nextAppointmentId, nextVisitId, now,
                    issues, calls>>

ResumeIds == 1 .. MaxResumes

\* Bodies of PUT /api/resumes/[id]: a new title, isActive, or another visitor.
ResumeBodies ==
  {[title |-> "cv2"], [isActive |-> TRUE], [isActive |-> FALSE], [visitorId |-> "v2"]}

NextResume ==
  \/ Return
  \/ /\ last = Idle
     /\ \E v \in VisitorIds \cup {MissingId} : CreateResume(v, "cv")
  \/ /\ last = Idle
     /\ \E id \in ResumeIds \cup {MaxResumes + 1}, body \in ResumeBodies :
          UpdateResume(id, body)
  \/ /\ last = Idle
     /\ \E id \in ResumeIds \cup {MaxResumes + 1} : DeleteResume(id)

SpecResume == Init /\ [][NextResume]_vars

\* The active resumes of a visitor.
ActiveResumes(visitorId) ==
  {i \in DOMAIN resumes : resumes[i].visitorId = visitorId /\ resumes[i].isActive}

\* C17: every visitor has at most one resume with isActive = true.
C17_SingleActiveResume ==
  \A v \in DOMAIN visitors : Cardinality(ActiveResumes(v)) <= 1

\* C18: an upload for an existing visitor adds one resume, active and owned by
\* that visitor, deactivates one active resume of the visitor if there is one
\* (the active resume R1 when there is exactly one), deletes nothing and leaves
\* every other resume as it was; an upload for a visitor that does not exist
\* is answered 404 and changes no resume.
C18_UploadReplacesActive ==
  [][last'.op = "createResume" =>
       IF last'.visitorId \notin DOMAIN visitors
       THEN last'.code = 404 /\ resumes' = resumes
       ELSE /\ last'.code = 200
            /\ Len(resumes') = Len(resumes) + 1
            /\ resumes'[Len(resumes')].visitorId = last'.visitorId
            /\ resumes'[Len(resumes')].isActive
            /\ \E deactivated \in SUBSET ActiveResumes(last'.visitorId) :
                 /\ Cardinality(deactivated) =
                      IF ActiveResumes(last'.visitorId) = {} THEN 0 ELSE 1
                 /\ \A i \in DOMAIN resumes :
                      resumes'[i] = IF i \in deactivated
                                    THEN [resumes[i] EXCEPT !.isActive = FALSE]
                                    ELSE resumes[i]
  ]_vars

\* C18 witness: an upload for a visitor deactivated that visitor's earlier
\* resume, which is still stored, while another visitor's resume stayed active.
C18_Witness ==
  /\ last.op = "createResume"
  /\ last.code = 200
  /\ Len(resumes) = 3
  /\ resumes[3].visitorId = last.visitorId /\ resumes[3].isActive
  /\ \E i, j \in 1 .. 2 :
       /\ resumes[i].visitorId = last.visitorId /\ ~resumes[i].isActive
       /\ resumes[j].visitorId # last.visitorId /\ resumes[j].isActive


\* ------------------------------------------------------------ visitor registry
MaxVisitors == 3       \* visitor rows ever created

\* Text columns are sequences of characters; the empty sequence stands for both
\* null and "", which every handler below treats alike (falsy, matches nothing).
NoText == <<>>
Names == {<<1, 2>>}
Phones == {<<9, 1>>, <<9, 2>>, <<9, 3>>}
Aadhaars == {<<5, 1>>, <<5, 2>>}
VoterIds == {<<7, 1>>}

\* The ids the database hands out, in order.
VisitorPool == <<"v1", "v2", "v3", "v4", "v5">>

\* The isActive of a new visitor: the default of the Visitor table.
DefaultVisitorActive == TRUE

\* JavaScript truthiness of an optional text field of a request body.
Truthy(data, field) == field \in DOMAIN data /\ data[field] # NoText

\* Prisma's { contains: query } on a text column.
Contains(text, query) ==
  \E i \in 0 .. Len(text) - Len(query) : SubSeq(text, i + 1, i + Len(query)) = query

\* The OR of the contains filters of the list and the search.
MatchesText(v, query) ==
  \/ Contains(visitors[v].name, query)
  \/ Contains(visitors[v].phone, query)
  \/ Contains(visitors[v].aadhaar, query)
  \/ Contains(visitors[v].voterId, query)

\* createVisitor's db.visitor.findFirst: any row with the phone, or with the
\* Aadhaar or the Voter ID when the request carries one.
ExistingVisitor(data) ==
  {v \in DOMAIN visitors :
     \/ visitors[v].phone = data.phone
     \/ Truthy(data, "aadhaar") /\ visitors[v].aadhaar = data.aadhaar
     \/ Truthy(data, "voterId") /\ visitors[v].voterId = data.voterId}

\* POST /api/visitors
CreateVisitor(data) ==
  LET id == VisitorPool[Cardinality(DOMAIN visitors) + 1]
      row == [name |-> data.name, phone |-> data.phone,
              aadhaar |-> IF "aadhaar" \in DOMAIN data THEN data.aadhaar ELSE NoText,
              voterId |-> IF "voterId" \in DOMAIN data THEN data.voterId ELSE NoText,
              isActive |-> DefaultVisitorActive, visitCount |-> 0, lastVisit |-> NoTime]
  IN /\ ExistingVisitor(data) = {} => Cardinality(DOMAIN visitors) < MaxVisitors
     /\ IF ExistingVisitor(data) # {}
        THEN /\ last' = [op |-> "createVisitor", code |-> 409, id |-> MissingId,
                         data |-> data]
             /\ visitors' = visitors
        ELSE /\ last' = [op |-> "createVisitor", code |-> 200, id |-> id, data |-> data]
             /\ visitors' = [v \in DOMAIN visitors \cup {id} |->
                               IF v = id THEN row ELSE visitors[v]]
     /\ UNCHANGED <<appointments, visits, nextAppointmentId, nextVisitId, now,
                    issues, resumes, calls>>

\* The duplicate query of updateVisitor without { id: { not: id } }.
DuplicateVisitorAny(id, data) ==
  {v \in DOMAIN visitors :
     \/ Truthy(data, "phone") /\ visitors[v].phone = data.phone
     \/ Truthy(data, "aadhaar") /\ visitors[v].aadhaar = data.aadhaar
     \/ Truthy(data, "voterId") /\ visitors[v].voterId = data.voterId}

\* updateVisitor's db.visitor.findFirst: another row with one of the identity
\* values the request carries.
DuplicateVisitor(id, data) ==
  {v \in DOMAIN visitors :
     /\ v # id
     /\ \/ Truthy(data, "phone") /\ visitors[v].phone = data.phone
        \/ Truthy(data, "aadhaar") /\ visitors[v].aadhaar = data.aadhaar
        \/ Truthy(data, "voterId") /\ visitors[v].voterId = data.voterId}

\* PUT /api/visitors/{id}: the duplicate query runs only when the request
\* carries a phone, an Aadhaar or a Voter ID; the fields present are written.
UpdateVisitor(id, data) ==
  LET code == IF id \notin DOMAIN visitors THEN 404
              ELSE IF /\ Truthy(data, "phone") \/ Truthy(data, "aadhaar")
                         \/ Truthy(data, "voterId")
                      /\ DuplicateVisitor(id, data) # {} THEN 409
              ELSE 200
  IN /\ last' = [op |-> "updateVisitor", code |-> code, id |-> id, data |-> data]
     /\ visitors' = IF code # 200 THEN visitors
                    ELSE [visitors EXCEPT ![id] =
                            [f \in DOMAIN @ |-> IF f \in DOMAIN data THEN data[f] ELSE @[f]]]
     /\ UNCHANGED <<appointments, visits, nextAppointmentId, nextVisitId, now,
                    issues, resumes, calls>>

\* DELETE /api/visitors/{id}
DeleteVisitor(id) ==
  LET found == id \in DOMAIN visitors
  IN /\ last' = [op |-> "deleteVisitor", code |-> IF found THEN 200 ELSE 404, id |-> id]
     /\ visitors' = IF found THEN [visitors EXCEPT ![id].isActive = FALSE] ELSE visitors
     /\ UNCHANGED <<appointments, visits, nextAppointmentId, nextVisitId, now,
                    issues, resumes, calls>>

\* GET /api/visitors/{id}: db.visitor.findUnique({ where: { id } })
GetVisitor(id) ==
  /\ last' = IF id \in DOMAIN visitors
             THEN [op |-> "getVisitor", code |-> 200, id |-> id, visitor |-> visitors[id]]
             ELSE [op |-> "getVisitor", code |-> 404, id |-> id]
  /\ UNCHANGED <<visitors, appointments, visits, nextAppointmentId, nextVisitId, now,
                 issues, resumes, calls>>

\* The where of the list, without isActive.
ListedVisitorsAll(search) ==
  {v \in DOMAIN visitors : search # NoText => MatchesText(v, search)}

\* The where of the list: active rows, narrowed by the search text if any.
ListedVisitors(search) ==
  {v \in DOMAIN visitors :
     /\ visitors[v].isActive
     /\ search # NoText => MatchesText(v, search)}

\* GET /api/visitors; the page holds every row (limit above MaxVisitors), and
\* the answer is kept as the set of ids on it.
GetVisitors(search) ==
  /\ last' = [op |-> "getVisitors", code |-> 200, query |-> search,
              visitors |-> ListedVisitors(search)]
  /\ UNCHANGED <<visitors, appointments, visits, nextAppointmentId, nextVisitId, now,
                 issues, resumes, calls>>

\* The where of the search.
SearchedVisitors(query) ==
  {v \in DOMAIN visitors : visitors[v].isActive /\ MatchesText(v, query)}

\* GET /api/visitors/search: a query shorter than two characters is answered
\* with no visitor.
SearchVisitors(query) ==
  /\ last' = [op |-> "searchVisitors", code |-> 200, query |-> query,
              visitors |-> IF Len(query) < 2 THEN {} ELSE SearchedVisitors(query)]
  /\ UNCHANGED <<visitors, appointments, visits, nextAppointmentId, nextVisitId, now,
                 issues, resumes, calls>>

\* Two registered visitors, as the seed leaves them: distinct phones and
\* Aadhaars, no Voter ID.
InitRegistry ==
  /\ visitors = [v \in VisitorIds |->
                   [name |-> <<1, 2>>,
                    phone |-> IF v = "v1" THEN <<9, 1>> ELSE <<9, 2>>,
                    aadhaar |-> IF v = "v1" THEN <<5, 1>> ELSE NoText,
                    voterId |-> NoText,
                    isActive |-> DefaultVisitorActive,
                    visitCount |-> 0, lastVisit |-> NoTime]]
  /\ appointments = <<>>
  /\ visits = <<>>
  /\ nextAppointmentId = 1
  /\ nextVisitId = 1
  /\ now = 0
  /\ last = Idle
  /\ issues = <<>>
  /\ resumes = <<>>
  /\ calls = <<>>

RegistryIds == {VisitorPool[i] : i \in 1 .. MaxVisitors} \cup {MissingId}

\* Request bodies of POST /api/visitors.
CreateBodies ==
  {[name |-> n, phone |-> p] : n \in Names, p \in Phones}
    \cup {[name |-> n, phone |-> p, aadhaar |-> a] :
            n \in Names, p \in Phones, a \in Aadhaars \cup {NoText}}
    \cup {[name |-> n, phone |-> p, voterId |-> t] :
            n \in Names, p \in Phones, t \in VoterIds}

\* Request bodies of PUT /api/visitors/{id}.
UpdateBodies ==
  {[phone |-> p] : p \in Phones}
    \cup {[aadhaar |-> a] : a \in Aadhaars \cup {NoText}}
    \cup {[voterId |-> t] : t \in VoterIds \cup {NoText}}
    \cup {[isActive |-> b] : b \in BOOLEAN}
    \cup {[phone |-> p, aadhaar |-> a] : p \in Phones, a \in Aadhaars}

Queries == {NoText, <<9>>, <<9, 1>>, <<5, 1>>, <<1, 2>>}

NextRegistry ==
  \/ Return
  \/ /\ last = Idle
     /\ \E data \in CreateBodies : CreateVisitor(data)
  \/ /\ last = Idle
     /\ \E id \in RegistryIds, data \in UpdateBodies : UpdateVisitor(id, data)
  \/ /\ last = Idle
     /\ \E id \in RegistryIds : DeleteVisitor(id)
  \/ /\ last = Idle
     /\ \E id \in RegistryIds : GetVisitor(id)
  \/ /\ last = Idle
     /\ \E search \in Queries : GetVisitors(search)
  \/ /\ last = Idle
     /\ \E query \in Queries : SearchVisitors(query)
  \/ /\ last = Idle
     /\ CheckInVisitor("v1", "u1", NoId, NULL)
  \/ /\ last = Idle
     /\ CreateIssue("v1", NULL)

SpecRegistry == InitRegistry /\ [][NextRegistry]_vars

\* C19: a delete of a stored visitor writes isActive = false on that row and
\* nothing else, leaving visits, appointments and issues as they were; no step
\* removes a visitor row; GET /visitors/{id} answers with the row whatever its
\* isActive; the list and the search return no visitor whose isActive is false.
C19_SoftDelete ==
  [][/\ DOMAIN visitors \subseteq DOMAIN visitors'
     /\ last'.op = "deleteVisitor" =>
          IF last'.id \in DOMAIN visitors
          THEN /\ last'.code = 200
               /\ visitors' = [visitors EXCEPT ![last'.id].isActive = FALSE]
               /\ UNCHANGED <<visits, appointments, issues>>
          ELSE last'.code = 404 /\ UNCHANGED <<visitors, visits, appointments, issues>>
     /\ last'.op = "getVisitor" /\ last'.id \in DOMAIN visitors =>
          last'.code = 200 /\ last'.visitor = visitors[last'.id]
     /\ last'.op \in {"getVisitors", "searchVisitors"} =>
          \A v \in last'.visitors : visitors[v].isActive
  ]_vars

\* C19 witness: a search whose text is the phone of a soft-deleted visitor who
\* has a visit and an issue returns nobody, the row still being stored.
C19_Witness ==
  /\ last.op = "searchVisitors"
  /\ last.query = <<9, 1>>
  /\ "v1" \in DOMAIN visitors
  /\ ~visitors["v1"].isActive
  /\ visitors["v1"].phone = <<9, 1>>
  /\ last.visitors = {}
  /\ Len(visits) > 0
  /\ Len(issues) > 0

\* Two rows share an identity value: the phone, a non-empty Aadhaar or a
\* non-empty Voter ID.
SameIdentity(a, b) ==
  \/ a.phone = b.phone
  \/ a.aadhaar # NoText /\ a.aadhaar = b.aadhaar
  \/ a.voterId # NoText /\ a.voterId = b.voterId

UniqueIdentity(table) ==
  \A v, w \in DOMAIN table : v # w => ~SameIdentity(table[v], table[w])

\* The row an update would leave.
Patched(row, data) ==
  [f \in DOMAIN row |-> IF f \in DOMAIN data THEN data[f] ELSE row[f]]

\* C20: no two stored visitors, active or not, share a phone, a non-empty
\* Aadhaar or a non-empty Voter ID; a registration or an update is answered 409
\* exactly when the row it would leave shares one with another stored row, and
\* then the table is unchanged.
C20_UniqueIdentity ==
  [][/\ UniqueIdentity(visitors')
     /\ last'.op = "createVisitor" =>
          LET row == [phone |-> last'.data.phone,
                      aadhaar |-> IF "aadhaar" \in DOMAIN last'.data
                                  THEN last'.data.aadhaar ELSE NoText,
                      voterId |-> IF "voterId" \in DOMAIN last'.data
                                  THEN last'.data.voterId ELSE NoText]
              clash == \E v \in DOMAIN visitors : SameIdentity(row, visitors[v])
          IN /\ last'.code = 409 <=> clash
             /\ last'.code = 409 => visitors' = visitors
     /\ last'.op = "updateVisitor" /\ last'.id \in DOMAIN visitors =>
          LET row == Patched(visitors[last'.id], last'.data)
              clash == \E v \in DOMAIN visitors \ {last'.id} :
                         SameIdentity(row, visitors[v])
          IN /\ last'.code = 409 <=> clash
             /\ last'.code = 409 => visitors' = visitors
  ]_vars

\* C20 witness: a registration with the phone of a soft-deleted visitor is
\* answered 409.
C20_Witness ==
  /\ last.op = "createVisitor"
  /\ last.code = 409
  /\ \E v \in DOMAIN visitors :
       ~visitors[v].isActive /\ visitors[v].phone = last.data.phone
  /\ Cardinality(DOMAIN visitors) = 3


\* ------------------------------------------------------------ authorisation
\* The Authorization header of a request: none, a token that does not verify,
\* or a token signed for a user of the given role.
NoToken == "none"
BadToken == "bad"
UserRole == {"ADMIN", "POLITICIAN", "STAFF"}
TokenRoles == UserRole \cup {"OTHER"}
Credentials == {NoToken, BadToken} \cup TokenRoles

\* verifyToken found no payload.
NoPayload == [role |-> NULL]

\* extractTokenFromHeader(authHeader): the token of the header, if any.
ExtractTokenFromHeader(authHeader) == authHeader

\* verifyToken(token): the payload of a token that verifies, else null.
VerifyToken(token) == IF token \in TokenRoles THEN [role |-> token] ELSE NoPayload

\* The role-gated route exports and their role lists.
Routes ==
  {[method |-> "POST", path |-> "/api/queue/actions"],
   [method |-> "POST", path |-> "/api/visits"],
   [method |-> "POST", path |-> "/api/issues"],
   [method |-> "PUT", path |-> "/api/visits/{id}"],
   [method |-> "DELETE", path |-> "/api/visitors/{id}"],
   [method |-> "DELETE", path |-> "/api/visits/{id}"],
   [method |-> "DELETE", path |-> "/api/appointments/{id}"],
   [method |-> "DELETE", path |-> "/api/issues/{id}"],
   [method |-> "DELETE", path |-> "/api/resumes/{id}"]}

RouteRoles(route) ==
  IF route.method = "DELETE" /\ route.path \in
       {"/api/visitors/{id}", "/api/visits/{id}", "/api/appointments/{id}",
        "/api/issues/{id}", "/api/resumes/{id}"}
  THEN {"ADMIN", "POLITICIAN"}
  ELSE {"ADMIN", "POLITICIAN", "STAFF"}

\* The client sends a request; it stays the request of caller c until the
\* next one is sent.
Fetch(c, route, authorization) ==
  /\ calls' = Insert(calls, c, [method |-> route.method, path |-> route.path,
                                authorization |-> authorization])
  /\ UNCHANGED <<visitors, appointments, visits, nextAppointmentId, nextVisitId, now,
                 last, issues, resumes>>

\* A wrapper answers by itself.
Reject(wrapper, code) ==
  /\ last' = [op |-> wrapper, code |-> code]
  /\ UNCHANGED <<visitors, appointments, visits, nextAppointmentId, nextVisitId, now,
                 issues, resumes, calls>>

\* The dispatcher of POST /api/queue/actions.
QueueAction(action) ==
  IF action = "checkin" THEN \E v \in VisitorIds : CheckInVisitor(v, "u1", NoId, NULL)
  ELSE IF action = "checkout"
    THEN \E id \in 1 .. MaxVisits : CheckOutVisitor(id, NULL, SatAbsent)
  ELSE IF action = "cancel" THEN \E id \in 1 .. MaxVisits : CancelVisit(id, NULL)
  ELSE Reject("queueAction", 400)

\* withAuth calls handler(authenticatedReq) and drops the route context, so a
\* handler that reads context.params throws inside its try and answers 500.
WithoutContext(handler) == Reject(handler, 500)

\* The handler a route export wraps, as withAuth invokes it.
Handler(route) ==
  IF route.path = "/api/queue/actions"
    THEN \E action \in {"checkin", "checkout", "cancel", "other"} : QueueAction(action)
  ELSE IF route.path = "/api/visits" THEN \E v \in VisitorIds : CreateVisit(v, "u1", NoId, NULL)
  ELSE IF route.path = "/api/issues" THEN CreateIssue("v1", NULL)
  ELSE IF route.method = "PUT" THEN WithoutContext("updateVisit")
  ELSE IF route.path = "/api/visitors/{id}" THEN WithoutContext("deleteVisitor")
  ELSE IF route.path = "/api/visits/{id}" THEN WithoutContext("deleteVisit")
  ELSE IF route.path = "/api/appointments/{id}" THEN WithoutContext("deleteAppointment")
  ELSE IF route.path = "/api/issues/{id}" THEN WithoutContext("deleteIssue")
  ELSE WithoutContext("deleteResume")

\* withRole with the role test against every write role, whatever the list.
WithRoleOfWriters(roles, user, handler) ==
  IF user = NoPayload THEN Reject("withRole", 401)
  ELSE IF user.role \notin UserRole THEN Reject("withRole", 403)
  ELSE handler

\* withRole(roles)(handler)
WithRole(roles, user, handler) ==
  IF user = NoPayload THEN Reject("withRole", 401)
  ELSE IF user.role \notin roles THEN Reject("withRole", 403)
  ELSE handler

\* withAuth(withRole(roles)(handler)) answering the request of caller c.
WithAuth(c) ==
  LET req == calls[c]
      route == [method |-> req.method, path |-> req.path]
      token == ExtractTokenFromHeader(req.authorization)
      payload == VerifyToken(token)
  IN IF token = NoToken THEN Reject("withAuth", 401)
     ELSE IF payload = NoPayload THEN Reject("withAuth", 401)
     ELSE WithRole(RouteRoles(route), payload, Handler(route))

NextAuth ==
  \/ Return
  \/ /\ last = Idle
     /\ \E route \in Routes, authorization \in Credentials :
          Fetch("c1", route, authorization)
  \/ /\ last = Idle
     /\ "c1" \in DOMAIN calls
     /\ WithAuth("c1")

SpecAuth == Init /\ [][NextAuth]_vars

\* C21: a request is answered 401 exactly when it carries no token or one that
\* does not verify, and 403 exactly when its token verifies with a role outside
\* the route's list (ADMIN, POLITICIAN and STAFF for writes, ADMIN and
\* POLITICIAN for the DELETE routes); a 401 or 403 comes from a wrapper and
\* changes no table, and a handler answers only requests that pass both tests.
C21_Authorised ==
  [][last = Idle /\ last' # Idle =>
       LET req == calls["c1"]
           valid == req.authorization \notin {NoToken, BadToken}
           allowed == IF req.method = "DELETE" THEN {"ADMIN", "POLITICIAN"}
                      ELSE {"ADMIN", "POLITICIAN", "STAFF"}
           wrapped == last'.op \in {"withAuth", "withRole"}
       IN /\ last'.code = 401 <=> ~valid
          /\ last'.code = 403 <=> (valid /\ req.authorization \notin allowed)
          /\ wrapped <=> last'.code \in {401, 403}
          /\ wrapped => UNCHANGED <<visitors, appointments, visits, issues, resumes,
                                    nextAppointmentId, nextVisitId>>
          /\ ~wrapped => valid /\ req.authorization \in allowed
  ]_vars

\* C21 witness: a STAFF token on a DELETE route is answered 403 by withRole
\* while visits and issues are stored.
C21_Witness ==
  /\ last.op = "withRole"
  /\ last.code = 403
  /\ calls["c1"].method = "DELETE"
  /\ calls["c1"].authorization = "STAFF"
  /\ Len(visits) > 0
  /\ Len(issues) > 0

\* ------------------------------------------------------------ calendar
WorkingStart == 9      \* workingHours.start
WorkingEnd == 17       \* workingHours.end
SlotDuration == 30     \* slotDuration, minutes

\* db.appointment.findMany({ where: { scheduledDate: { gte, lte }, userId? } })
CalendarAppointments(startDate, endDate, userId) ==
  {id \in DOMAIN appointments :
     /\ appointments[id].scheduledDate >= startDate
     /\ appointments[id].scheduledDate <= endDate
     /\ userId # NULL => appointments[id].userId = userId}

\* isAvailable: no appointment of the day overlaps the slot.
IsAvailable(dayAppointments, slotStart, slotEnd) ==
  ~\E id \in dayAppointments :
     /\ slotStart < appointments[id].endTime
     /\ slotEnd > appointments[id].startTime

\* The slot starts of a day: every half hour of the working hours.
SlotStarts(date) ==
  {DateTime(date, hour * 60 + minute) :
     hour \in WorkingStart .. WorkingEnd - 1,
     minute \in {m \in 0 .. 59 : m % SlotDuration = 0}}

\* GET /api/appointments/calendar: the appointments of the range are grouped
\* by scheduledDate, and each date that has a group gets its free slots.
GetCalendarAppointments(startDate, endDate, userId) ==
  LET found == CalendarAppointments(startDate, endDate, userId)
      appointmentsByDate ==
        [date \in {appointments[id].scheduledDate : id \in found} |->
           {id \in found : appointments[id].scheduledDate = date}]
      availableSlots ==
        [date \in DOMAIN appointmentsByDate |->
           {slotStart \in SlotStarts(date) :
              IsAvailable(appointmentsByDate[date], slotStart, slotStart + SlotDuration)}]
  IN /\ last' = [op |-> "getCalendarAppointments", code |-> 200,
                 startDate |-> startDate, endDate |-> endDate, userId |-> userId,
                 appointments |-> found, availableSlots |-> availableSlots]
     /\ UNCHANGED <<visitors, appointments, visits, nextAppointmentId, nextVisitId, now,
                    issues, resumes, calls>>

\* Bookings at 09:00, 10:00, 10:15 and 16:30 of 15 or 30 minutes.
CalendarTimes == {540, 600, 615, 990}
CalendarPatches == {[NoPatch EXCEPT !.status = s] : s \in {"CONFIRMED", "CANCELLED"}}

NextCalendar ==
  \/ Return
  \/ /\ last = Idle
     /\ \E u \in UserIds, d \in Dates, t \in CalendarTimes, n \in Durations :
          CreateAppointment("v1", u, d, t, n, "NORMAL")
  \/ /\ last = Idle
     /\ \E id \in AppointmentIds, p \in CalendarPatches : UpdateAppointment(id, p)
  \/ /\ last = Idle
     /\ \E startDate \in Dates, endDate \in Dates, u \in UserIds \cup {NULL} :
          GetCalendarAppointments(startDate, endDate, u)

SpecCalendar == Init /\ [][NextCalendar]_vars

\* C22: in a calendar answer for a staff member, on every date it lists, a
\* half-hour slot of the working hours is listed exactly when it overlaps
\* (half-open) no appointment of that staff member on that date that is not
\* cancelled; every listed slot lies in [09:00, 17:00) and there are at most 16.
C22_SlotAvailability ==
  (last.op = "getCalendarAppointments" /\ last.userId # NULL) =>
    \A date \in DOMAIN last.availableSlots :
      /\ \A slotStart \in SlotStarts(date) :
           slotStart \in last.availableSlots[date] <=>
             ~\E id \in DOMAIN appointments :
                /\ appointments[id].userId = last.userId
                /\ appointments[id].scheduledDate = date
                /\ appointments[id].status # "CANCELLED"
                /\ slotStart < appointments[id].endTime
                /\ slotStart + SlotDuration > appointments[id].startTime
      /\ \A slotStart \in last.availableSlots[date] :
           /\ slotStart >= DateTime(date, 9 * 60)
           /\ slotStart + SlotDuration <= DateTime(date, 17 * 60)
      /\ Cardinality(last.availableSlots[date]) <= 16

\* C23: every stored appointment has endTime = startTime + duration with
\* 15 <= duration <= 240, and its startTime lies on its scheduledDate.
C23_IntervalOnDate ==
  \A id \in DOMAIN appointments :
    LET a == appointments[id]
    IN /\ a.endTime = a.startTime + a.duration
       /\ a.duration >= 15 /\ a.duration <= 240
       /\ a.startTime < a.endTime
       /\ a.startTime >= DateTime(a.scheduledDate, 0)
       /\ a.startTime < DateTime(a.scheduledDate + 1, 0)

\* C24: a check-in by either entry point that names a missing visitor, a
\* missing staff user or a missing appointment is answered 404; a check-in
\* answered 200 adds exactly one visit, IN_PROGRESS with no checkOutTime, for
\* its visitor, adds 1 to that visitor's visitCount and stamps lastVisit; any
\* other answer adds no visit and changes no counter; the counters of the
\* other visitors never change.
C24_CheckInEffect ==
  [][last'.op \in {"checkInVisitor", "createVisit"} =>
       LET V == last'.visitorId
           A == last'.appointmentId
           missing == \/ V \notin DOMAIN visitors
                      \/ last'.userId \notin UserIds
                      \/ A # NoId /\ A \notin DOMAIN appointments
       IN /\ missing => last'.code = 404
          /\ last'.code = 404 => missing
          /\ last'.code = 200 =>
               /\ DOMAIN visits' = DOMAIN visits \cup {nextVisitId}
               /\ nextVisitId \notin DOMAIN visits
               /\ \A id \in DOMAIN visits : visits'[id] = visits[id]
               /\ visits'[nextVisitId].visitorId = V
               /\ visits'[nextVisitId].status = "IN_PROGRESS"
               /\ visits'[nextVisitId].checkOutTime = NoTime
               /\ visitors' = [visitors EXCEPT ![V] =
                                 [@ EXCEPT !.visitCount = @ + 1, !.lastVisit = now]]
          /\ last'.code # 200 => visits' = visits /\ visitors' = visitors
  ]_vars

\* C25: for the same state and request the two check-in entry points both
\* accept or both reject; a rejection by either writes nothing, and an
\* acceptance by either adds the same visit and counts it on the same visitor,
\* the only difference being the status written to the linked appointment:
\* CONFIRMED by the queue check-in, COMPLETED by the direct visit creation.
C25_EntryPointsAgree ==
  [][last'.op \in {"checkInVisitor", "createVisit"} =>
       LET V == last'.visitorId
           U == last'.userId
           A == last'.appointmentId
           queue == last'.op = "checkInVisitor"
           accepted == last'.code = 200
           otherAccepts == IF queue THEN CreateVisitCode(V, U, A) = 200
                           ELSE CheckInCode(V, U, A) = 200
       IN /\ accepted <=> otherAccepts
          /\ ~accepted => UNCHANGED <<visits, visitors, appointments>>
          /\ accepted =>
               /\ DOMAIN visits' = DOMAIN visits \cup {nextVisitId}
               /\ \A id \in DOMAIN visits : visits'[id] = visits[id]
               /\ visits'[nextVisitId].visitorId = V
               /\ visits'[nextVisitId].userId = U
               /\ visits'[nextVisitId].appointmentId = A
               /\ visits'[nextVisitId].status = "IN_PROGRESS"
               /\ visits'[nextVisitId].checkInTime = now
               /\ visitors' = [visitors EXCEPT ![V] =
                                 [@ EXCEPT !.visitCount = @ + 1, !.lastVisit = now]]
               /\ appointments' =
                    IF A = NoId THEN appointments
                    ELSE [appointments EXCEPT ![A].status =
                            IF queue THEN "CONFIRMED" ELSE "COMPLETED"]
  ]_vars

\* ------------------------------------------------------------ failing check-ins
\* The database call the handler of caller c is about to make rejects: the
\* catch block answers 500 and undoes nothing (`at` keeps the call that failed).
CheckInFailRollback(c) ==
  /\ c \in DOMAIN calls
  /\ calls[c].pc # "done"
  /\ calls' = [calls EXCEPT ![c] =
                 [op |-> @.op, pc |-> "done", visitorId |-> @.visitorId,
                  userId |-> @.userId, appointmentId |-> @.appointmentId,
                  code |-> 500, seen |-> @.seen, at |-> @.pc]]
  /\ visits' = IF calls[c].pc = "count"
               THEN [i \in {j \in DOMAIN visits : j # nextVisitId - 1} |-> visits[i]]
               ELSE visits
  /\ UNCHANGED <<visitors, appointments, nextAppointmentId, nextVisitId, now,
                 last, issues, resumes>>

\* The database call the handler of caller c is about to make rejects: the
\* catch block answers 500; the handler runs in no transaction, so what it
\* wrote before stays (`at` keeps the call that failed).
CheckInFail(c) ==
  /\ c \in DOMAIN calls
  /\ calls[c].pc # "done"
  /\ calls' = [calls EXCEPT ![c] =
                 [op |-> @.op, pc |-> "done", visitorId |-> @.visitorId,
                  userId |-> @.userId, appointmentId |-> @.appointmentId,
                  code |-> 500, seen |-> @.seen, at |-> @.pc]]
  /\ visits' = visits
  /\ UNCHANGED <<visitors, appointments, nextAppointmentId, nextVisitId, now,
                 last, issues, resumes>>

NextFail ==
  \/ NextRaceVisit
  \/ \E c \in Callers : CheckInFail(c)

SpecFail == Init /\ [][NextFail]_vars

\* The check-ins for a visitor that inserted their visit and have not counted
\* it: about to count, or failed at that call.
Uncounted(visitorId) ==
  {c \in DOMAIN calls :
     /\ calls[c].visitorId = visitorId
     /\ \/ calls[c].pc = "count"
        \/ calls[c].code = 500 /\ calls[c].at = "count"}

\* The POST /api/visits calls that failed after the appointment write and
\* before the insert.
FailedAfterAppointment ==
  {c \in DOMAIN calls :
     /\ calls[c].op = "createVisit"
     /\ calls[c].code = 500
     /\ calls[c].at \in {"activeVisit", "create"}
     /\ calls[c].appointmentId \in DOMAIN appointments}

\* C26: what a check-in wrote before it failed stays: every visitor has as
\* many visits as its visitCount plus the check-ins that inserted a visit and
\* did not count it, and the appointment of a POST /api/visits that failed
\* between the appointment write and the insert is no longer PENDING.
C26_WritesPersist ==
  /\ \A v \in DOMAIN visitors :
       Cardinality({i \in DOMAIN visits : visits[i].visitorId = v}) =
         visitors[v].visitCount + Cardinality(Uncounted(v))
  /\ \A c \in FailedAfterAppointment :
       appointments[calls[c].appointmentId].status \in {"COMPLETED", "CONFIRMED"}

\* C26 witness: one check-in failed at the visitor update, leaving an
\* IN_PROGRESS visit of a visitor whose visitCount is 0, and a POST /api/visits
\* failed before its insert, leaving its appointment COMPLETED with no visit
\* linked to it.
C26_Witness ==
  \E c1, c2 \in DOMAIN calls :
    /\ calls[c1].code = 500 /\ calls[c1].at = "count"
    /\ visitors[calls[c1].visitorId].visitCount = 0
    /\ \E i \in DOMAIN visits :
         visits[i].visitorId = calls[c1].visitorId /\ visits[i].status = "IN_PROGRESS"
    /\ c2 \in FailedAfterAppointment
    /\ appointments[calls[c2].appointmentId].status = "COMPLETED"
    /\ \A i \in DOMAIN visits : visits[i].appointmentId # calls[c2].appointmentId

\* ------------------------------------------------------------ queue statistics
\* Tables for the statistics: two visits, open or closed, checked in late
\* yesterday or today, walk-in or linked to an appointment of today; the clock
\* stands in the second day.
StatsTimes == {DateTime(1, 0) - 1, DateTime(1, 0), DateTime(1, 0) + 1}
StatsVisitRows(v) ==
  {[visitorId |-> v, userId |-> u, appointmentId |-> a, checkInTime |-> t,
    checkOutTime |-> out, status |-> st, notes |-> NULL, satisfaction |-> SatNull] :
     u \in UserIds, a \in {NoId, 1}, t \in StatsTimes,
     st \in {"IN_PROGRESS", "COMPLETED", "CANCELLED"},
     out \in StatsTimes \cup {DateTime(1, 0) + 3, NoTime}}

InitStats ==
  /\ visitors = [v \in VisitorIds |-> [visitCount |-> 1, lastVisit |-> DateTime(1, 0)]]
  /\ \E t \in {DateTime(1, 0), DateTime(1, 0) + 1}, u \in UserIds :
       appointments = <<[visitorId |-> "v1", userId |-> u, scheduledDate |-> 1,
                         startTime |-> t, endTime |-> t + MinDuration,
                         duration |-> MinDuration, status |-> "COMPLETED",
                         priority |-> "NORMAL"]>>
  /\ \E r1 \in StatsVisitRows("v1"), r2 \in StatsVisitRows("v2") :
       /\ visits = <<r1, r2>>
       /\ \A r \in {r1, r2} :
            /\ r.status = "IN_PROGRESS" <=> r.checkOutTime = NoTime
            /\ r.checkOutTime # NoTime => r.checkOutTime >= r.checkInTime
       /\ ~(r1.appointmentId = 1 /\ r2.appointmentId = 1)
  /\ nextAppointmentId = 2
  /\ nextVisitId = 3
  /\ now = DateTime(1, 0) + 3
  /\ last = Idle
  /\ issues = <<>>
  /\ resumes = <<>>
  /\ calls = <<>>

NextStats ==
  \/ Return
  \/ /\ last = Idle
     /\ \E u \in UserIds \cup {NULL} : GetQueueStatus(u)

SpecStats == InitStats /\ [][NextStats]_vars

\* The COMPLETED visits checked in today (of the staff member asked for).
DoneToday(userId) ==
  {i \in DOMAIN visits :
     /\ visits[i].status = "COMPLETED"
     /\ visits[i].checkInTime \div MinutesPerDay = now \div MinutesPerDay
     /\ userId = NULL \/ visits[i].userId = userId}

\* The sum of term[i] over the set S.
RECURSIVE SumOver(_, _)
SumOver(S, term) ==
  IF S = {} THEN 0
  ELSE LET i == CHOOSE x \in S : TRUE IN term[i] + SumOver(S \ {i}, term)

\* C27: in a queue answer, with no COMPLETED visit checked in today both
\* averages are 0; otherwise averageVisitDuration times their number is the sum
\* of their checkOutTime - checkInTime, and averageWaitTime times their number
\* is the sum of checkInTime - appointment.startTime over those of them that
\* have an appointment (in minutes).
C27_QueueStatistics ==
  last.op = "getQueueStatus" =>
    LET done == DoneToday(last.userId)
        n == Cardinality(done)
        duration == [i \in done |-> visits[i].checkOutTime - visits[i].checkInTime]
        wait == [i \in done |->
                   IF visits[i].appointmentId \in DOMAIN appointments
                   THEN visits[i].checkInTime
                          - appointments[visits[i].appointmentId].startTime
                   ELSE 0]
        stats == last.queueStats
    IN /\ last.completedVisitsToday = done
       /\ n = 0 => /\ stats.averageWaitTime.num = 0
                   /\ stats.averageVisitDuration.num = 0
       /\ n > 0 =>
            /\ stats.averageVisitDuration.num * n
                 = SumOver(done, duration) * stats.averageVisitDuration.den
            /\ stats.averageWaitTime.num * n
                 = SumOver(done, wait) * stats.averageWaitTime.den

\* ------------------------------------------------------------ concurrent checkout and cancel
\* The entry points are POST /api/queue/actions?action=checkout and ?action=cancel.
CloseOps == {"checkOutVisitor", "cancelVisit"}

\* The status a close handler writes to the visit and to its appointment.
CloseStatus(op) == IF op = "checkOutVisitor" THEN "COMPLETED" ELSE "CANCELLED"

\* A request arrives: the body is parsed, no database call is made yet.
\* `appointmentId` will hold visit.appointmentId as the lookup returns it.
CloseCall(c, op, visitId) ==
  /\ c \notin DOMAIN calls
  /\ calls' = Insert(calls, c,
                     [op |-> op, pc |-> "find", visitId |-> visitId,
                      appointmentId |-> NoId, code |-> 0])
  /\ UNCHANGED <<visitors, appointments, visits, nextAppointmentId, nextVisitId, now,
                 last, issues, resumes>>

\* db.visit.findUnique, then the two guards on the row that was read.
CloseFind(c) ==
  /\ At(c, "find")
  /\ calls' = IF CloseCode(calls[c].visitId) # 200
              THEN Answer(c, CloseCode(calls[c].visitId))
              ELSE [Goto(c, "visit") EXCEPT
                      ![c].appointmentId = visits[calls[c].visitId].appointmentId]
  /\ UNCHANGED <<visitors, appointments, visits, nextAppointmentId, nextVisitId, now,
                 last, issues, resumes>>

\* db.visit.update({ where: { id }, data: { status, checkOutTime, notes } });
\* the requests carry no notes, so `notes || visit.notes` rewrites the notes
\* that were read.
CloseVisit(c) ==
  /\ At(c, "visit")
  /\ visits' = [visits EXCEPT ![calls[c].visitId] =
                  [@ EXCEPT !.status = CloseStatus(calls[c].op), !.checkOutTime = now]]
  /\ calls' = Goto(c, "appointment")
  /\ UNCHANGED <<visitors, appointments, nextAppointmentId, nextVisitId, now,
                 last, issues, resumes>>

\* if (visit.appointmentId) db.appointment.update, then the response.
CloseLinked(c) ==
  /\ At(c, "appointment")
  /\ appointments' = IF calls[c].appointmentId # NoId
                     THEN SetAppointmentStatus(calls[c].appointmentId,
                                               CloseStatus(calls[c].op))
                     ELSE appointments
  /\ calls' = Answer(c, 200)
  /\ UNCHANGED <<visitors, visits, nextAppointmentId, nextVisitId, now,
                 last, issues, resumes>>

\* Visitor v1 books, checks in with or without the appointment, and two
\* callers each close a visit.
NextRaceClose ==
  \/ Return
  \/ /\ last = Idle
     /\ CreateAppointment("v1", "u1", 0, 600, MinDuration, "NORMAL")
  \/ /\ last = Idle
     /\ \E a \in {NoId, 1} : CheckInVisitor("v1", "u1", a, NULL)
  \/ \E c \in Callers, op \in CloseOps, id \in 1 .. MaxVisits + 1 : CloseCall(c, op, id)
  \/ \E c \in Callers : CloseFind(c)
  \/ \E c \in Callers : CloseVisit(c)
  \/ \E c \in Callers : CloseLinked(c)

SpecRaceClose == Init /\ [][NextRaceClose]_vars

\* C28: of a checkout and a cancel of the same visit at most one is answered
\* 200, and once both are answered the visit and its linked appointment carry
\* the same status.
C28_OneCloseWins ==
  \A c1, c2 \in DOMAIN calls :
    (/\ calls[c1].op = "checkOutVisitor" /\ calls[c2].op = "cancelVisit"
     /\ calls[c1].visitId = calls[c2].visitId
     /\ At(c1, "done") /\ At(c2, "done")
     /\ 200 \in {calls[c1].code, calls[c2].code})
    => /\ ~(calls[c1].code = 200 /\ calls[c2].code = 200)
       /\ LET visit == visits[calls[c1].visitId]
          IN visit.appointmentId \in DOMAIN appointments =>
               /\ visit.status \in {"COMPLETED", "CANCELLED"}
               /\ appointments[visit.appointmentId].status = visit.status

\* ------------------------------------------------------------ visit counter
\* The keys of updateVisitorSchema; z.object drops every other key of the body.
UpdateVisitorFields ==
  {"name", "phone", "email", "aadhaar", "voterId", "village", "district", "state",
   "address", "category", "age", "gender", "occupation", "notes", "isActive"}

\* updateVisitorSchema.parse(body)
UpdateVisitorSchema(body) ==
  [f \in DOMAIN body \cap UpdateVisitorFields |-> body[f]]

\* PUT /api/visitors/{id} with a raw request body.
PutVisitor(id, body) == UpdateVisitor(id, UpdateVisitorSchema(body))

\* Request bodies of PUT /api/visitors/{id} that name the counter.
CountBodies ==
  {[visitCount |-> 0],
   [visitCount |-> 5, isActive |-> FALSE],
   [visitCount |-> 1, phone |-> <<9, 3>>]}

\* Registered visitors check in at the desk (two requests may overlap and a
\* database call may fail), are checked out, have their records edited and
\* their visits deleted.
NextCount ==
  \/ Return
  \/ \E c \in Callers, op \in CheckInOps, v \in VisitorIds :
       CheckInCall(c, op, v, "u1", NoId)
  \/ \E c \in Callers : CheckInReferences(c)
  \/ \E c \in Callers : CheckInActiveVisit(c)
  \/ \E c \in Callers : CheckInAppointment(c)
  \/ \E c \in Callers : CheckInCreate(c)
  \/ \E c \in Callers : CheckInCount(c)
  \/ \E c \in Callers : CheckInFail(c)
  \/ /\ last = Idle
     /\ \E id \in VisitorIds, body \in CountBodies : PutVisitor(id, body)
  \/ /\ last = Idle
     /\ \E id \in 1 .. MaxVisits : CheckOutVisitor(id, NULL, SatAbsent)
  \/ /\ last = Idle
     /\ \E id \in 1 .. MaxVisits : DeleteVisit(id)

SpecCount == InitRegistry /\ [][NextCount]_vars

\* The check-ins of a visitor that were answered 200.
SuccessfulCheckIns(visitorId) ==
  {c \in DOMAIN calls :
     calls[c].visitorId = visitorId /\ calls[c].pc = "done" /\ calls[c].code = 200}

\* The stored visits of a visitor.
StoredVisits(visitorId) == {i \in DOMAIN visits : visits[i].visitorId = visitorId}

\* C29: no step lowers a visitor's visitCount; a step that changes it is the
\* step in which a check-in of that visitor is answered 200; and whenever no
\* check-in is in flight the count equals the number of the visitor's
\* successful check-ins and is at least the number of the visitor's stored
\* visits.
C29_VisitCount ==
  [][\A v \in DOMAIN visitors :
       /\ v \in DOMAIN visitors'
       /\ visitors'[v].visitCount >= visitors[v].visitCount
       /\ visitors'[v].visitCount # visitors[v].visitCount =>
            \E c \in DOMAIN calls :
              /\ calls[c].visitorId = v
              /\ calls[c].pc # "done"
              /\ c \in SuccessfulCheckIns(v)'
       /\ (\A c \in DOMAIN calls' : calls'[c].pc = "done") =>
            /\ visitors'[v].visitCount = Cardinality(SuccessfulCheckIns(v))'
            /\ visitors'[v].visitCount >= Cardinality(StoredVisits(v))']_vars

\* ------------------------------------------------------------ linked appointments
\* The statuses in which an appointment is still open to a check-in.
OpenAppointmentStatus == {"PENDING", "CONFIRMED"}

\* C30: a visit created with an appointment names an appointment that existed
\* before the check-in, belonged to the visit's visitor and was PENDING or
\* CONFIRMED, and neither check-in entry point changes the status of an
\* appointment that is CANCELLED, NO_SHOW or COMPLETED.
C30_LinkedAppointment ==
  [][/\ \A i \in DOMAIN visits' \ DOMAIN visits :
          visits'[i].appointmentId # NoId =>
            /\ visits'[i].appointmentId \in DOMAIN appointments
            /\ appointments[visits'[i].appointmentId].visitorId = visits'[i].visitorId
            /\ appointments[visits'[i].appointmentId].status \in OpenAppointmentStatus
     /\ (last = Idle /\ last' # Idle /\ last'.op \in CheckInOps) =>
          \A a \in DOMAIN appointments :
            appointments[a].status \notin OpenAppointmentStatus =>
              /\ a \in DOMAIN appointments'
              /\ appointments'[a].status = appointments[a].status]_vars
=============================================================================
